---- MODULE Spec2Model ----
\* Verification model of dmfwizard: electrode polygons, their transform
\* hierarchy, grid construction and the crenellation engine.
\*
\* Coordinates are integers on a lattice whose unit is the pruning tolerance of
\* Electrode.insert_points (0.001 board units): two lattice points are closer
\* than the tolerance exactly when they are equal.  The tolerances of
\* do_edges_overlap (np.isclose, TOL = 1e-12) lie below one lattice unit, so on
\* lattice points they are exact comparisons.  Rotations are whole quarter turns,
\* whose sine and cosine are exact.  Lengths are compared through their squares.
EXTENDS Integers, Sequences, FiniteSets, TLC

VARIABLES
    line_a, line_b, ret_ab, ret_ba,     \* do_edges_overlap: arguments and results
    elec, theta, last, ncalls,          \* free electrodes, the session's theta, the last crenellate_electrodes call
    grid, next_refdes, glog, nops,      \* a Grid, its Constructor, the last operation on them
    board, next_periph_id,              \* a BoardDesign and the Constructor's peripheral counter
    lists, board_copy                   \* the point lists of a board held by reference, and its copy if one was taken

vars == <<line_a, line_b, ret_ab, ret_ba, elec, theta, last, ncalls, grid, next_refdes, glog, nops,
          board, next_periph_id, lists, board_copy>>

edge_vars == <<line_a, line_b, ret_ab, ret_ba>>

cren_vars == <<elec, theta, last, ncalls>>

grid_vars == <<grid, next_refdes, glog, nops>>

board_vars == <<board, next_periph_id, lists, board_copy>>

-----------------------------------------------------------------------------
\* Bounds of the model

\* lattice coordinates of the segments given to do_edges_overlap: 0..CoordMax
CoordMax == 3

\* num_digits ranges over 1..MaxDigits
MaxDigits == 2

\* number of crenellate_electrodes calls in one run on the free electrodes
MaxCalls == 2

\* number of Constructor / crenellate_grid operations in one run on the grid
MaxOps == 3

-----------------------------------------------------------------------------
\* Vectors, segments and Python lists

None == "None"

Abs(x) == IF x < 0 THEN 0 - x ELSE x

Sign(x) == IF x < 0 THEN 0 - 1 ELSE IF x > 0 THEN 1 ELSE 0

Min(x, y) == IF x <= y THEN x ELSE y

Max(x, y) == IF x >= y THEN x ELSE y

VSub(p, q) == <<p[1] - q[1], p[2] - q[2]>>

VAdd(p, q) == <<p[1] + q[1], p[2] + q[2]>>

\* np.dot of two 2-vectors
Dot(p, q) == p[1] * q[1] + p[2] * q[2]

\* np.cross of two 2-vectors: the z component
Cross(p, q) == p[1] * q[2] - p[2] * q[1]

DistSq(p, q) == Dot(VSub(p, q), VSub(p, q))

Reverse(s) == [i \in 1..Len(s) |-> s[Len(s) + 1 - i]]

\* Python s[i] for 0 <= i < len(s), and s[i] = s[len(s)+i] for -len(s) <= i < 0
PyAt(s, i) == IF i < 0 THEN s[Len(s) + i + 1] ELSE s[i + 1]

\* Python s[index:index] = new, for 0 <= index <= len(s)
PySplice(s, index, new) == SubSeq(s, 1, index) \o new \o SubSeq(s, index + 1, Len(s))

-----------------------------------------------------------------------------
\* crenellation.py: do_edges_overlap

\* A mutation of the span tests: the second and third disjunct are dropped
do_edges_overlap_inside_only(la, lb) ==
    LET a0 == la[1]
        a1 == la[2]
        lensq == DistSq(a1, a0)
        D0 == Dot(VSub(lb[1], a0), VSub(a1, a0))
        D1 == Dot(VSub(lb[2], a0), VSub(a1, a0))
    IN  /\ Cross(VSub(lb[1], a0), VSub(lb[1], a1)) = 0
        /\ Cross(VSub(lb[2], a0), VSub(lb[2], a1)) = 0
        /\ lensq > 0
        /\ D0 >= 0 /\ D0 <= lensq /\ D1 >= 0 /\ D1 <= lensq

\* A mutation of outside-of-segment handling: partial overlaps are accepted
do_edges_overlap_partial(la, lb) ==
    LET a0 == la[1]
        a1 == la[2]
        lensq == DistSq(a1, a0)
        D0 == Dot(VSub(lb[1], a0), VSub(a1, a0))
        D1 == Dot(VSub(lb[2], a0), VSub(a1, a0))
    IN  /\ Cross(VSub(lb[1], a0), VSub(lb[1], a1)) = 0
        /\ Cross(VSub(lb[2], a0), VSub(lb[2], a1)) = 0
        /\ lensq > 0
        /\ \/ (D0 >= 0 /\ D0 <= lensq) \/ (D1 >= 0 /\ D1 <= lensq)
           \/ (D0 <= 0 /\ D1 >= lensq)
           \/ (D0 >= lensq /\ D1 <= 0)

\* The projections d0, d1 of line_b's end points on the unit vector of line_a
\* are kept multiplied by len_a: D = d * len_a, so d >= 0 iff D >= 0 and
\* d <= len_a iff D <= len_a^2.  For a degenerate line_a the unit vector is
\* 0/0 = nan, every comparison with nan is false, and the result is False.
do_edges_overlap(la, lb) ==
    LET a0 == la[1]
        a1 == la[2]
        xp0 == Cross(VSub(lb[1], a0), VSub(lb[1], a1))
        xp1 == Cross(VSub(lb[2], a0), VSub(lb[2], a1))
        lensq == DistSq(a1, a0)
        D0 == Dot(VSub(lb[1], a0), VSub(a1, a0))
        D1 == Dot(VSub(lb[2], a0), VSub(a1, a0))
        inside(D) == D >= 0 /\ D <= lensq
    IN  IF xp0 # 0 \/ xp1 # 0 THEN FALSE
        ELSE IF lensq = 0 THEN FALSE
        ELSE \/ (inside(D0) /\ inside(D1))
             \/ (D0 <= 0 /\ D1 >= lensq)
             \/ (D0 >= lensq /\ D1 <= 0)

-----------------------------------------------------------------------------
\* types.py: transform hierarchy.  A matrix [c, s, tx, ty] stands for
\*   [[c, -s, tx], [s, c, ty], [0, 0, 1]];  rotations are quarter turns.

Cos4(r) == CASE r % 4 = 0 -> 1 [] r % 4 = 1 -> 0 [] r % 4 = 2 -> 0 - 1 [] OTHER -> 0

Sin4(r) == CASE r % 4 = 0 -> 0 [] r % 4 = 1 -> 1 [] r % 4 = 2 -> 0 [] OTHER -> 0 - 1

make_transform_matrix(rotation, translation) ==
    [c |-> Cos4(rotation), s |-> Sin4(rotation), tx |-> translation[1], ty |-> translation[2]]

\* np.dot of two homogeneous matrices
MatDot(M, N) ==
    [c  |-> M.c * N.c - M.s * N.s,
     s  |-> M.s * N.c + M.c * N.s,
     tx |-> M.c * N.tx - M.s * N.ty + M.tx,
     ty |-> M.s * N.tx + M.c * N.ty + M.ty]

\* A mutation of MatInv: the translation is negated without being rotated back
MatInv_unrotated(M) == [c |-> M.c, s |-> 0 - M.s, tx |-> 0 - M.tx, ty |-> 0 - M.ty]

\* np.linalg.inv of a rigid transform
MatInv(M) ==
    [c  |-> M.c,
     s  |-> 0 - M.s,
     tx |-> 0 - (M.c * M.tx + M.s * M.ty),
     ty |-> 0 - (M.c * M.ty - M.s * M.tx)]

\* np.dot(M, (x, y, 1))[0:2]
MatApply(M, p) == <<M.c * p[1] - M.s * p[2] + M.tx, M.s * p[1] + M.c * p[2] + M.ty>>

RECURSIVE transform_matrix_leaf_outermost(_, _)
\* A mutation of transform_matrix: the parent's matrix is multiplied on the right
transform_matrix_leaf_outermost(store, node) ==
    LET M == make_transform_matrix(node.rotation, node.origin)
    IN  IF node.parent # None
        THEN MatDot(M, transform_matrix_leaf_outermost(store, store[node.parent]))
        ELSE M

RECURSIVE transform_matrix(_, _)
\* store maps the name of a container to its node; node.parent names the parent
transform_matrix(store, node) ==
    LET M == make_transform_matrix(node.rotation, node.origin)
    IN  IF node.parent # None
        THEN MatDot(transform_matrix(store, store[node.parent]), M)
        ELSE M

-----------------------------------------------------------------------------
\* types.py: Electrode

\* the pruning tolerance of insert_points, 0.001, is one lattice unit
PruneTol == 1

Electrode(points, origin, refdes, parent, anchor_pad) ==
    [points |-> points, origin |-> origin, rotation |-> 0, parent |-> parent,
     refdes |-> refdes, anchor_pad |-> anchor_pad]

num_edges(e) == Len(e.points)

offset_point(store, e, n) == MatApply(transform_matrix(store, e), PyAt(e.points, n))

offset_points(store, e) ==
    LET M == transform_matrix(store, e)
    IN  [i \in 1..Len(e.points) |-> MatApply(M, e.points[i])]

\* offset_edge raises ValueError for n >= len(points)
offset_edge_raises(e, n) == n >= Len(e.points)

offset_edge(store, e, n) ==
    IF n = Len(e.points) - 1
    THEN <<offset_point(store, e, n), offset_point(store, e, 0)>>
    ELSE <<offset_point(store, e, n), offset_point(store, e, n + 1)>>

\* A mutation of edge: the last edge does not close the ring
edge_open(e, n) == <<PyAt(e.points, n), PyAt(e.points, Min(n + 1, Len(e.points) - 1))>>

\* edge raises ValueError for n >= len(points), as offset_edge does
edge(e, n) ==
    IF n = Len(e.points) - 1
    THEN <<PyAt(e.points, n), PyAt(e.points, 0)>>
    ELSE <<PyAt(e.points, n), PyAt(e.points, n + 1)>>

\* np.linalg.norm(p - q) < 0.001
Close(p, q) == DistSq(p, q) < PruneTol * PruneTol

\* A mutation of insert_points: the coincident end points are not pruned
insert_points_no_prune(points, index, new, prune_duplicates) ==
    PySplice(points, index, new)

\* A mutation of insert_points: the first new point is compared with the vertex
\* at the slot
insert_points_first_at_slot(points, index, new, prune_duplicates) ==
    LET nextidx == IF index = Len(points) THEN 0 ELSE index
        start == IF prune_duplicates /\ Close(PyAt(points, nextidx), new[1]) THEN 1 ELSE 0
        stop == IF prune_duplicates /\ Close(PyAt(points, nextidx), new[Len(new)])
                THEN Len(new) - 1 ELSE Len(new)
    IN  PySplice(points, index, SubSeq(new, start + 1, stop))

\* A mutation of insert_points: the new points take the place of the vertex at
\* the slot
insert_points_replacing(points, index, new, prune_duplicates) ==
    SubSeq(points, 1, index) \o new \o SubSeq(points, index + 2, Len(points))

\* the new value of self.points
insert_points(points, index, new, prune_duplicates) ==
    LET start == IF prune_duplicates /\ Close(PyAt(points, index - 1), new[1]) THEN 1 ELSE 0
        nextidx == IF index = Len(points) THEN 0 ELSE index
        stop == IF prune_duplicates /\ Close(PyAt(points, nextidx), new[Len(new)])
                THEN Len(new) - 1 ELSE Len(new)
    IN  PySplice(points, index, SubSeq(new, start + 1, stop))

\* the electrode after insert_offset_points
insert_offset_points(store, e, index, new, prune_duplicates) ==
    LET M == MatInv(transform_matrix(store, e))
        local == [i \in 1..Len(new) |-> MatApply(M, new[i])]
    IN  [e EXCEPT !.points = insert_points(e.points, index, local, prune_duplicates)]

-----------------------------------------------------------------------------
\* crenellation.py: find_overlapping_edges, are_edges_flipped,
\* create_crenellated_edge, crenellate_electrodes

\* edge n of a ring of board points, as offset_edge returns it
RingEdge(ring, n) ==
    IF n = Len(ring) - 1 THEN <<ring[n + 1], ring[1]>> ELSE <<ring[n + 1], ring[n + 2]>>

RECURSIVE scan_product(_, _, _)
\* itertools.product(range(na), range(nb)) read from edge_a on: range(na) is
\* the outer loop, range(nb) the inner one, left at the first edge_b whose edge
\* overlaps.  ring_a and ring_b are a.offset_points() and b.offset_points(),
\* whose edges are what a.offset_edge and b.offset_edge return.
scan_product(ring_a, ring_b, edge_a) ==
    IF edge_a >= Len(ring_a) THEN <<>>
    ELSE IF \E edge_b \in 0..(Len(ring_b) - 1) :
                do_edges_overlap(RingEdge(ring_a, edge_a), RingEdge(ring_b, edge_b))
    THEN <<edge_a,
           CHOOSE edge_b \in 0..(Len(ring_b) - 1) :
               /\ do_edges_overlap(RingEdge(ring_a, edge_a), RingEdge(ring_b, edge_b))
               /\ \A j \in 0..(edge_b - 1) :
                      ~do_edges_overlap(RingEdge(ring_a, edge_a), RingEdge(ring_b, j))>>
    ELSE scan_product(ring_a, ring_b, edge_a + 1)

RECURSIVE scan_product_b_outer(_, _, _)
scan_product_b_outer(ring_a, ring_b, edge_b) ==
    IF edge_b >= Len(ring_b) THEN <<>>
    ELSE IF \E edge_a \in 0..(Len(ring_a) - 1) :
                do_edges_overlap(RingEdge(ring_a, edge_a), RingEdge(ring_b, edge_b))
    THEN <<CHOOSE edge_a \in 0..(Len(ring_a) - 1) :
               /\ do_edges_overlap(RingEdge(ring_a, edge_a), RingEdge(ring_b, edge_b))
               /\ \A j \in 0..(edge_a - 1) :
                      ~do_edges_overlap(RingEdge(ring_a, j), RingEdge(ring_b, edge_b)),
           edge_b>>
    ELSE scan_product_b_outer(ring_a, ring_b, edge_b + 1)

\* A mutation of the scan order: b's edges in the outer loop
find_overlapping_edges_b_outer(store, a, b) ==
    scan_product_b_outer(offset_points(store, a), offset_points(store, b), 0)

\* <<edge_a, edge_b>>, or <<>> for None
find_overlapping_edges(store, a, b) ==
    scan_product(offset_points(store, a), offset_points(store, b), 0)

\* A mutation of the orientation test: never flipped
are_edges_flipped_never(ea, eb) == FALSE

are_edges_flipped(ea, eb) == Dot(VSub(ea[2], ea[1]), VSub(eb[2], eb[1])) < 0

\* np.linalg.norm of a segment [p0, p1] taken as a 2x2 array is the Frobenius
\* norm of its four coordinates; this is its square
EdgeNormSq(e) == Dot(e[1], e[1]) + Dot(e[2], e[2])

\* the square of the Euclidean length |end - start|
EdgeLengthSq(e) == DistSq(e[2], e[1])

\* The finger geometry stays on the lattice when the segment is parallel to an
\* axis (or degenerate) and half the finger width is a whole number of units.
\* Calls for which this fails are outside the model; with num_digits = 0 the
\* finger width is infinite and the points returned are not numbers.
OnLattice(start, end, num_digits, margin) ==
    LET u == VSub(end, start)
        line_length == Abs(u[1]) + Abs(u[2])
    IN  /\ num_digits # 0
        /\ u[1] = 0 \/ u[2] = 0
        /\ (line_length - margin * 2) % (2 * Abs(num_digits)) = 0

\* A mutation of create_crenellated_edge: the fingers start on the other side
create_crenellated_edge_negative_first(start, end, num_digits, cot_half, margin) ==
    LET u == VSub(end, start)
        line_length == Abs(u[1]) + Abs(u[2])
        half_width == Sign(num_digits) * ((line_length - margin * 2) \div (2 * Abs(num_digits)))
        \* range(num_digits) is empty for a negative num_digits
        digits == Max(num_digits, 0)
        finger_width == 2 * half_width
        finger_height == half_width * cot_half
        alternating(i) == IF i % 2 = 0 THEN 0 - 1 ELSE 1
        xpt(k) == IF k = 1 THEN margin
                  ELSE IF k = digits + 2 THEN line_length - margin
                  ELSE margin + half_width + finger_width * (k - 2)
        ypt(k) == IF k = 1 \/ k = digits + 2 THEN 0
                  ELSE alternating(k - 2) * finger_height
        \* arctan2(0, 0) = 0: a degenerate segment is not rotated
        c == IF u = <<0, 0>> THEN 1 ELSE Sign(u[1])
        s == Sign(u[2])
    IN  [k \in 1..(digits + 2) |->
            <<c * xpt(k) - s * ypt(k) + start[1], s * xpt(k) + c * ypt(k) + start[2]>>]

\* cot_half stands for theta: theta = 2 * atan(1 / cot_half), so that
\* finger_height = finger_width / tan(theta / 2) / 2 = (finger_width / 2) * cot_half
create_crenellated_edge(start, end, num_digits, cot_half, margin) ==
    LET u == VSub(end, start)
        line_length == Abs(u[1]) + Abs(u[2])
        half_width == Sign(num_digits) * ((line_length - margin * 2) \div (2 * Abs(num_digits)))
        \* range(num_digits) is empty for a negative num_digits
        digits == Max(num_digits, 0)
        finger_width == 2 * half_width
        finger_height == half_width * cot_half
        alternating(i) == IF i % 2 = 0 THEN 1 ELSE 0 - 1
        xpt(k) == IF k = 1 THEN margin
                  ELSE IF k = digits + 2 THEN line_length - margin
                  ELSE margin + half_width + finger_width * (k - 2)
        ypt(k) == IF k = 1 \/ k = digits + 2 THEN 0
                  ELSE alternating(k - 2) * finger_height
        \* arctan2(0, 0) = 0: a degenerate segment is not rotated
        c == IF u = <<0, 0>> THEN 1 ELSE Sign(u[1])
        s == Sign(u[2])
    IN  [k \in 1..(digits + 2) |->
            <<c * xpt(k) - s * ypt(k) + start[1], s * xpt(k) + c * ypt(k) + start[2]>>]

\* np.linalg.norm(edge_a) < np.linalg.norm(edge_b)
a_is_shorter(edge_a, edge_b) == EdgeNormSq(edge_a) < EdgeNormSq(edge_b)

NoEdges == "ValueError: No overlapping edges found to crenellate"

OneEdge == "ValueError: If one edge is provided, the other must be also"

BadEdge == "ValueError: Cannot get edge"

\* A mutation of chosen_edge_idx: supplied indices are taken in the wrong order
chosen_edge_idx_swapped(edge_a_idx, edge_b_idx, edges) ==
    IF edge_a_idx = 0 - 1 THEN edges ELSE <<edge_b_idx, edge_a_idx>>

\* edge_a_idx, edge_b_idx after `if edge_a_idx == -1: ... edge_a_idx, edge_b_idx = edges`
chosen_edge_idx(edge_a_idx, edge_b_idx, edges) ==
    IF edge_a_idx = 0 - 1 THEN edges ELSE <<edge_a_idx, edge_b_idx>>

\* The outcome of crenellate_electrodes(a, b, num_digits, theta, margin,
\* edge_a_idx, edge_b_idx): the error raised (None when it returns), the two
\* electrodes afterwards, and the values of its local variables.
\* `edges` is the value of find_overlapping_edges(a, b), read only when
\* edge_a_idx is -1.
crenellate_with(store, a, b, num_digits, cot_half, margin, edge_a_idx, edge_b_idx, edges) ==
    LET failed(e) == [err |-> e, a |-> a, b |-> b, edge_a_idx |-> edge_a_idx,
                      edge_b_idx |-> edge_b_idx, short_edge |-> <<>>, new_points |-> <<>>,
                      on_lattice |-> TRUE]
        ia == chosen_edge_idx(edge_a_idx, edge_b_idx, edges)[1]
        ib == chosen_edge_idx(edge_a_idx, edge_b_idx, edges)[2]
    IN  IF (edge_a_idx = 0 - 1 \/ edge_b_idx = 0 - 1) /\ edge_b_idx # edge_a_idx
        THEN failed(OneEdge)
        ELSE IF edge_a_idx = 0 - 1 /\ edges = <<>>
        THEN failed(NoEdges)
        ELSE IF offset_edge_raises(a, ia) \/ offset_edge_raises(b, ib)
        THEN failed(BadEdge)
        ELSE
            LET edge_a == offset_edge(store, a, ia)
                edge_b == offset_edge(store, b, ib)
                short_edge == IF a_is_shorter(edge_a, edge_b) THEN edge_a ELSE edge_b
                new_points == <<short_edge[1]>>
                              \o create_crenellated_edge(short_edge[1], short_edge[2],
                                                         num_digits, cot_half, margin)
                              \o <<short_edge[2]>>
                list_a == IF are_edges_flipped(edge_a, short_edge)
                          THEN Reverse(new_points) ELSE new_points
                list_b == IF are_edges_flipped(edge_b, short_edge)
                          THEN Reverse(new_points) ELSE new_points
            IN  [err |-> None,
                 a |-> insert_offset_points(store, a, ia + 1, list_a, TRUE),
                 b |-> insert_offset_points(store, b, ib + 1, list_b, TRUE),
                 edge_a_idx |-> ia, edge_b_idx |-> ib,
                 short_edge |-> short_edge, new_points |-> new_points,
                 on_lattice |-> OnLattice(short_edge[1], short_edge[2], num_digits, margin)]

crenellate_electrodes(store, a, b, num_digits, cot_half, margin, edge_a_idx, edge_b_idx) ==
    crenellate_with(store, a, b, num_digits, cot_half, margin, edge_a_idx, edge_b_idx,
                    find_overlapping_edges(store, a, b))

-----------------------------------------------------------------------------
\* Specification of do_edges_overlap as a pure function: the two segments are
\* drawn at Init, the actions call the function with both argument orders.

Coords == 0..CoordMax

LatticePoints == Coords \X Coords

Segments == {s \in LatticePoints \X LatticePoints : s[1] # s[2]}

Unset == "unset"

BoolStr(b) == IF b THEN "True" ELSE "False"

InitFreeIdle ==
    /\ elec = [k \in {} |-> 0]
    /\ theta = 0
    /\ last = [op |-> "init", err |-> None]
    /\ ncalls = 0

InitBoardIdle ==
    /\ board = [grids |-> <<>>, peripherals |-> <<>>]
    /\ next_periph_id = 1
    /\ lists = <<>>
    /\ board_copy = <<>>

InitGridIdle ==
    /\ InitBoardIdle
    /\ grid = [origin |-> <<0, 0>>, size |-> <<0, 0>>, pitch |-> 0]
    /\ next_refdes = 1
    /\ glog = [op |-> "init", err |-> None]
    /\ nops = 0

InitEdges ==
    /\ line_a \in Segments
    /\ line_b \in Segments
    /\ ret_ab = Unset
    /\ ret_ba = Unset
    /\ InitFreeIdle
    /\ InitGridIdle

CallOverlapAB ==
    /\ ret_ab = Unset
    /\ ret_ab' = BoolStr(do_edges_overlap(line_a, line_b))
    /\ UNCHANGED <<line_a, line_b, ret_ba, cren_vars, grid_vars, board_vars>>

CallOverlapBA ==
    /\ ret_ba = Unset
    /\ ret_ba' = BoolStr(do_edges_overlap(line_b, line_a))
    /\ UNCHANGED <<line_a, line_b, ret_ab, cren_vars, grid_vars, board_vars>>

NextEdges == CallOverlapAB \/ CallOverlapBA

SpecEdges == InitEdges /\ [][NextEdges]_vars

-----------------------------------------------------------------------------
\* Specification of crenellate_electrodes on two free electrodes laid out as
\* in crenellate.py: a square a and a rectangle b to its right, whose left edge
\* contains a's right edge unless a gap separates the two.  b is wound as in
\* crenellate.py or as new_grid_square winds it, so that the two edges run in
\* opposite or in equal directions.  The layout is placed at several positions
\* of the board.

\* side of the square
Sides == {12}

\* how far b extends below and above a
Overhangs == {0, 12}

\* the empty space between a and b
Gaps == {0, 6}

\* board positions of a's lower left corner
Positions == {<<0, 8>>, <<0 - 30, 0 - 20>>}

Margins == {0, 2}

\* cot(theta / 2): theta = 90 degrees and theta = 2 * atan(1/2)
CotHalves == {1, 2}

Names == {"a", "b"}

NoStore == [k \in {} |-> 0]

\* the winding of crenellate.py's polygons
RectA(w, lo, hi) == <<<<0, 0 - lo>>, <<w, 0 - lo>>, <<w, hi>>, <<0, hi>>>>

\* the winding of new_grid_square
RectB(w, lo, hi) == <<<<0, 0 - lo>>, <<0, hi>>, <<w, hi>>, <<w, 0 - lo>>>>

Layout(S, lo, hi, gap, wind, pos) ==
    [k \in Names |->
        IF k = "a"
        THEN Electrode(RectA(S, 0, S), pos, 0 - 1, None, <<0, 0>>)
        ELSE Electrode(IF wind = "A" THEN RectA(S, lo, S + hi) ELSE RectB(S, lo, S + hi),
                       VAdd(pos, <<S + gap, 0>>), 0 - 1, None, <<0, 0>>)]

NoCall ==
    [op |-> "init", a |-> None, b |-> None, num_digits |-> 0, cot_half |-> 0, margin |-> 0,
     err |-> None, edge_a |-> <<>>, edge_b |-> <<>>, edge_a_idx |-> 0 - 1, edge_b_idx |-> 0 - 1,
     short_edge |-> <<>>, new_points |-> <<>>, pre |-> NoStore, prev |-> <<>>,
     given |-> <<0 - 1, 0 - 1>>]

InitEdgesIdle ==
    /\ line_a = <<<<0, 0>>, <<0, 0>>>>
    /\ line_b = <<<<0, 0>>, <<0, 0>>>>
    /\ ret_ab = Unset
    /\ ret_ba = Unset

InitCren ==
    /\ \E S \in Sides, lo \in Overhangs, hi \in Overhangs, gap \in Gaps,
          wind \in {"A", "B"}, pos \in Positions :
          /\ gap # 0 => (lo = 0 /\ hi = 0)
          /\ elec = Layout(S, lo, hi, gap, wind, pos)
    /\ theta \in CotHalves
    /\ last = NoCall
    /\ ncalls = 0
    /\ InitEdgesIdle
    /\ InitGridIdle

\* crenellate_electrodes(x, y, num_digits, theta, margin, edge_a_idx, edge_b_idx)
\* with the session's theta; `edges` is its find_overlapping_edges(x, y).  `last`
\* records the call: its arguments (the edge indices in given), the electrodes
\* before it (pre), the error it raised, the edges it read and the arguments and
\* outcome of the call before it (prev).
CrenellateWith(x, y, num_digits, margin, edge_a_idx, edge_b_idx, edges) ==
    \E r \in {crenellate_with(NoStore, elec[x], elec[y], num_digits, theta, margin,
                               edge_a_idx, edge_b_idx, edges)} : \E ok \in {r.err = None} :
        /\ r.on_lattice
        /\ elec' = IF ok THEN [elec EXCEPT ![x] = r.a, ![y] = r.b] ELSE elec
        /\ last' = [op |-> "crenellate_electrodes", a |-> x, b |-> y,
                    num_digits |-> num_digits, cot_half |-> theta, margin |-> margin,
                    err |-> r.err,
                    edge_a |-> IF ok THEN offset_edge(NoStore, elec[x], r.edge_a_idx) ELSE <<>>,
                    edge_b |-> IF ok THEN offset_edge(NoStore, elec[y], r.edge_b_idx) ELSE <<>>,
                    edge_a_idx |-> r.edge_a_idx, edge_b_idx |-> r.edge_b_idx,
                    short_edge |-> r.short_edge, new_points |-> r.new_points,
                    pre |-> elec,
                    prev |-> IF last.op = "init" THEN <<>>
                             ELSE <<last.a, last.b, last.num_digits, last.cot_half,
                                    last.margin, last.err>>,
                    given |-> <<edge_a_idx, edge_b_idx>>]
        /\ ncalls' = ncalls + 1
        /\ UNCHANGED <<theta, edge_vars, grid_vars, board_vars>>

\* crenellate_electrodes(x, y, num_digits, theta, margin) with the default edge
\* indices
Crenellate(x, y, num_digits, margin, edges) ==
    CrenellateWith(x, y, num_digits, margin, 0 - 1, 0 - 1, edges)

NextCren ==
    /\ ncalls < MaxCalls
    /\ \E x \in Names : \E y \in Names \ {x} :
        \E edges \in {find_overlapping_edges(NoStore, elec[x], elec[y])} :
            \E n \in 1..MaxDigits, m \in Margins :
                Crenellate(x, y, n, m, edges)

SpecCren == InitCren /\ [][NextCren]_vars

-----------------------------------------------------------------------------
\* Specification of crenellate_electrodes called with any arguments on a square
\* a and a square b to its right that share a's right edge: num_digits negative
\* or positive, margin 0 or beyond half the edge, and edge indices left
\* at -1, supplied for one electrode only, or supplied for both (the shared
\* edges, other edges, or an index past the last edge).

ArgMargins == {0, 8}

\* (edge_a_idx, edge_b_idx)
ArgEdges == {<<0 - 1, 0 - 1>>, <<1, 0 - 1>>, <<0 - 1, 0>>, <<1, 3>>, <<1, 0>>, <<4, 0>>}

InitCrenArgs ==
    /\ \E wind \in {"A", "B"} : elec = Layout(12, 0, 0, 0, wind, <<0, 8>>)
    /\ theta = 1
    /\ last = NoCall
    /\ ncalls = 0
    /\ InitEdgesIdle
    /\ InitGridIdle

NextCrenArgs ==
    /\ ncalls < MaxCalls
    /\ \E edges \in {find_overlapping_edges(NoStore, elec["a"], elec["b"])} :
          \E n \in (0 - 1)..MaxDigits, m \in ArgMargins, given \in ArgEdges :
              CrenellateWith("a", "b", n, m, given[1], given[2], edges)

SpecCrenArgs == InitCrenArgs /\ [][NextCrenArgs]_vars

-----------------------------------------------------------------------------
\* Specification of one Electrode "e" in a transform hierarchy: alone, under a
\* parent "p", or under "p" and its parent "g", the containers rotated by
\* quarter turns and translated.  elec maps the three names to their nodes.
\* Points are inserted in local and in board coordinates, edges and transform
\* matrices are read; `last` records the call, the nodes before it and what it
\* returned.

Container(origin, rotation, parent) == [origin |-> origin, rotation |-> rotation, parent |-> parent]

\* (parent of e, p, g)
Hierarchies ==
    {<<None, Container(<<0, 0>>, 0, None), Container(<<0, 0>>, 0, None)>>,
     <<"p", Container(<<10, 0>>, 1, None), Container(<<0, 0>>, 0, None)>>,
     <<"p", Container(<<0 - 5, 7>>, 3, "g"), Container(<<1, 0 - 4>>, 2, None)>>,
     <<"p", Container(<<3, 3>>, 0, "g"), Container(<<0, 20>>, 1, None)>>}

InitElectrode ==
    /\ \E h \in Hierarchies :
          elec = [k \in {"e", "p", "g"} |->
                     CASE k = "e" -> Electrode(<<<<0, 0>>, <<4, 0>>, <<4, 3>>>>, <<2, 1>>, 0 - 1,
                                               h[1], <<0, 0>>)
                       [] k = "p" -> h[2]
                       [] OTHER -> h[3]]
    /\ theta = 1
    /\ last = NoCall
    /\ ncalls = 0
    /\ InitEdgesIdle
    /\ InitGridIdle

\* the record of a call on the electrode
Called(op, args, err, ret) ==
    /\ last' = [op |-> op, args |-> args, err |-> err, ret |-> ret, pre |-> elec]
    /\ ncalls' = ncalls + 1
    /\ UNCHANGED <<theta, edge_vars, grid_vars, board_vars>>

\* the vertices before and at the slot index, which insert_points compares with
SlotEnds(points, index) ==
    <<PyAt(points, index - 1), PyAt(points, IF index = Len(points) THEN 0 ELSE index)>>

\* e.insert_points(index, points, prune_duplicates)
InsertPoints(index, points, prune_duplicates) ==
    /\ elec' = [elec EXCEPT !["e"].points = insert_points(@, index, points, prune_duplicates)]
    /\ Called("insert_points", <<index, points, prune_duplicates>>, None, <<>>)

\* e.insert_offset_points(index, points, prune_duplicates)
InsertOffsetPoints(index, points, prune_duplicates) ==
    /\ elec' = [elec EXCEPT !["e"] = insert_offset_points(elec, @, index, points, prune_duplicates)]
    /\ Called("insert_offset_points", <<index, points, prune_duplicates>>, None, <<>>)

\* e.edge(n) and e.offset_edge(n)
ReadEdge(n) ==
    /\ UNCHANGED elec
    /\ IF offset_edge_raises(elec["e"], n)
       THEN Called("edge", <<n>>, BadEdge, <<>>)
       ELSE Called("edge", <<n>>, None, <<edge(elec["e"], n), offset_edge(elec, elec["e"], n)>>)

\* node.transform_matrix()
ReadTransform(k) ==
    /\ UNCHANGED elec
    /\ Called("transform_matrix", <<k>>, None, <<transform_matrix(elec, elec[k])>>)

NextElectrode ==
    /\ ncalls < MaxCalls
    /\ \/ \E index \in {0, 1, Len(elec["e"].points)} :
             \E ends \in {SlotEnds(elec["e"].points, index)} :
                \E points \in {<<<<1, 1>>>>, <<ends[1]>>, <<ends[1], <<1, 1>>>>,
                               <<<<1, 1>>, ends[2]>>, <<ends[1], <<1, 1>>, ends[2]>>,
                               <<VAdd(ends[1], <<1, 0>>), <<1, 1>>, VAdd(ends[2], <<0, 1>>)>>} :
                   \E prune_duplicates \in BOOLEAN :
                      InsertPoints(index, points, prune_duplicates)
       \/ \E index \in {0, 1, Len(elec["e"].points)} :
             \E ends \in {SlotEnds(offset_points(elec, elec["e"]), index)} :
                \E points \in {<<<<5, 7>>>>, <<<<0 - 2, 1>>, <<3, 3>>>>,
                               <<ends[1], <<5, 7>>, ends[2]>>} :
                   \E prune_duplicates \in BOOLEAN :
                      InsertOffsetPoints(index, points, prune_duplicates)
       \/ \E n \in 0..(Len(elec["e"].points) + 1) : ReadEdge(n)
       \/ \E k \in {"e", "p", "g"} : ReadTransform(k)

SpecElectrode == InitElectrode /\ [][NextElectrode]_vars

-----------------------------------------------------------------------------
\* construct.py: new_grid_square, Constructor, crenellate_grid.
\* A constructor session c is [grid, next_refdes]; grid.order lists the keys of
\* the dict grid.electrodes in insertion order.

new_grid_square(size) == <<<<0, 0>>, <<0, size>>, <<size, size>>, <<size, 0>>>>

\* the transform nodes an electrode of the grid reaches through its parent
GridStore(g) == "grid" :> [origin |-> g.origin, rotation |-> 0, parent |-> None]

Grid(origin, size, pitch) ==
    [origin |-> origin, size |-> size, pitch |-> pitch,
     electrodes |-> [k \in {} |-> 0], order |-> <<>>]

\* A mutation of fill: an occupied cell gets a new square and a new refdes
fill_overwrite(c, pos) ==
    [grid |-> [c.grid EXCEPT
                 !.electrodes = (pos :> Electrode(
                     new_grid_square(c.grid.pitch),
                     <<pos[1] * c.grid.pitch, pos[2] * c.grid.pitch>>,
                     c.next_refdes, "grid",
                     <<c.grid.pitch \div 2, c.grid.pitch \div 2>>)) @@ @,
                 !.order = IF pos \in DOMAIN c.grid.electrodes THEN @ ELSE Append(@, pos)],
     next_refdes |-> c.next_refdes + 1]

\* Constructor.fill; get_refdes hands out next_refdes and increments it
fill(c, pos) ==
    IF pos \in DOMAIN c.grid.electrodes
    THEN c
    ELSE [grid |-> [c.grid EXCEPT
                      !.electrodes = @ @@ (pos :> Electrode(
                          new_grid_square(c.grid.pitch),
                          <<pos[1] * c.grid.pitch, pos[2] * c.grid.pitch>>,
                          c.next_refdes, "grid",
                          <<c.grid.pitch \div 2, c.grid.pitch \div 2>>)),
                      !.order = Append(@, pos)],
          next_refdes |-> c.next_refdes + 1]

OutOfGrid(g, x, y) == x < 0 \/ x >= g.size[1] \/ y < 0 \/ y >= g.size[2]

RectExceeds == "ValueError: Filling rectangle exceeds grid size"

LineExceeds == "ValueError: Filling line exceeds grid size"

RECURSIVE fill_rect_from(_, _, _, _)
\* the loop of fill_rect over itertools.product(xpts, ypts), from position k on
fill_rect_from(c, pos, size, k) ==
    LET x == pos[1] + (k \div size[2])
        y == pos[2] + (k % size[2])
    IN  IF size[1] <= 0 \/ size[2] <= 0 \/ k >= size[1] * size[2]
        THEN [c |-> c, err |-> None]
        ELSE IF OutOfGrid(c.grid, x, y)
        THEN [c |-> c, err |-> RectExceeds]
        ELSE fill_rect_from(fill(c, <<x, y>>), pos, size, k + 1)

fill_rect(c, pos, size) == fill_rect_from(c, pos, size, 0)

RECURSIVE fill_line_from(_, _, _, _, _)
\* the loop of fill_vert and fill_horiz over range(0, distance, copysign(1, distance));
\* dir is <<0, 1>> for fill_vert and <<1, 0>> for fill_horiz
fill_line_from(c, start, distance, dir, k) ==
    LET i == IF distance < 0 THEN 0 - k ELSE k
        x == start[1] + dir[1] * i
        y == start[2] + dir[2] * i
    IN  IF k >= Abs(distance)
        THEN [c |-> c, err |-> None]
        ELSE IF OutOfGrid(c.grid, x, y)
        THEN [c |-> c, err |-> LineExceeds]
        ELSE fill_line_from(fill(c, <<x, y>>), start, distance, dir, k + 1)

fill_vert(c, start, distance) == fill_line_from(c, start, distance, <<0, 1>>, 0)

fill_horiz(c, start, distance) == fill_line_from(c, start, distance, <<1, 0>>, 0)

\* str.isspace of a line given as a sequence of characters: not empty, all blanks
IsSpace(line) == Len(line) > 0 /\ \A i \in 1..Len(line) : line[i] \in {" ", "\t"}

RECURSIVE kept_lines(_)
\* the first loop of fill_ascii: found_non_blank is never set, so every line
\* that isspace() is dropped
kept_lines(lines) ==
    IF lines = <<>> THEN <<>>
    ELSE IF IsSpace(Head(lines)) THEN kept_lines(Tail(lines))
    ELSE <<Head(lines)>> \o kept_lines(Tail(lines))

RECURSIVE fill_chars(_, _, _, _)
fill_chars(c, line, row, i) ==
    IF i >= Len(line) THEN c
    ELSE fill_chars(IF line[i + 1] # "_" /\ line[i + 1] # " " THEN fill(c, <<i, row>>) ELSE c,
                    line, row, i + 1)

RECURSIVE fill_rows(_, _, _)
fill_rows(c, lines, row) ==
    IF row >= Len(lines) THEN c
    ELSE fill_rows(fill_chars(c, lines[row + 1], row, 0), lines, row + 1)

\* Constructor.fill_ascii on diagram.splitlines(), each line a sequence of characters
fill_ascii(c, lines) == fill_rows(c, kept_lines(lines), 0)

RECURSIVE crenellate_grid_from(_, _, _, _, _)

\* A mutation of crenellate_grid_step: the loops go on after a call has raised
crenellate_grid_step_goes_on(st, num_digits, cot_half, margin, k) ==
    LET g == st.grid
        cell == k \div 2
        x == cell \div g.size[2]
        y == cell % g.size[2]
        other == IF k % 2 = 0 THEN <<x + 1, y>> ELSE <<x, y + 1>>
    IN  IF g.size[1] <= 0 \/ g.size[2] <= 0 \/ k >= 2 * g.size[1] * g.size[2]
        THEN st
        ELSE IF <<x, y>> \in DOMAIN g.electrodes /\ other \in DOMAIN g.electrodes
        THEN LET a == g.electrodes[<<x, y>>]
                 b == g.electrodes[other]
                 r == crenellate_electrodes(GridStore(g), a, b, num_digits, cot_half, margin,
                                            0 - 1, 0 - 1)
                 entry == [a |-> <<x, y>>, b |-> other,
                           ring_a |-> offset_points(GridStore(g), a),
                           ring_b |-> offset_points(GridStore(g), b),
                           edges |-> IF r.err = None THEN <<r.edge_a_idx, r.edge_b_idx>> ELSE <<>>,
                           err |-> r.err]
             IN  crenellate_grid_from(
                     [grid |-> [g EXCEPT !.electrodes[<<x, y>>] = r.a, !.electrodes[other] = r.b],
                      log |-> Append(st.log, entry),
                      err |-> r.err,
                      on_lattice |-> st.on_lattice /\ r.on_lattice],
                     num_digits, cot_half, margin, k + 1)
        ELSE crenellate_grid_from(st, num_digits, cot_half, margin, k + 1)

\* The loops of crenellate_grid from position k on: k \div 2 counts the cells
\* of itertools.product(xpts, ypts), k % 2 picks (x+1, y) or (x, y+1).  st is
\* [grid, log, err, on_lattice]; log gains one entry per crenellate_electrodes
\* call: the two keys, the board rings the call found and the edges
\* find_overlapping_edges returned to it.
crenellate_grid_step(st, num_digits, cot_half, margin, k) ==
    LET g == st.grid
        cell == k \div 2
        x == cell \div g.size[2]
        y == cell % g.size[2]
        other == IF k % 2 = 0 THEN <<x + 1, y>> ELSE <<x, y + 1>>
    IN  IF st.err # None \/ g.size[1] <= 0 \/ g.size[2] <= 0 \/ k >= 2 * g.size[1] * g.size[2]
        THEN st
        ELSE IF <<x, y>> \in DOMAIN g.electrodes /\ other \in DOMAIN g.electrodes
        THEN LET a == g.electrodes[<<x, y>>]
                 b == g.electrodes[other]
                 r == crenellate_electrodes(GridStore(g), a, b, num_digits, cot_half, margin,
                                            0 - 1, 0 - 1)
                 entry == [a |-> <<x, y>>, b |-> other,
                           ring_a |-> offset_points(GridStore(g), a),
                           ring_b |-> offset_points(GridStore(g), b),
                           edges |-> IF r.err = None THEN <<r.edge_a_idx, r.edge_b_idx>> ELSE <<>>,
                           err |-> r.err]
             IN  crenellate_grid_from(
                     [grid |-> [g EXCEPT !.electrodes[<<x, y>>] = r.a, !.electrodes[other] = r.b],
                      log |-> Append(st.log, entry),
                      err |-> r.err,
                      on_lattice |-> st.on_lattice /\ r.on_lattice],
                     num_digits, cot_half, margin, k + 1)
        ELSE crenellate_grid_from(st, num_digits, cot_half, margin, k + 1)

\* the state st handed on from position k - 1 is evaluated once
crenellate_grid_from(st, num_digits, cot_half, margin, k) ==
    CHOOSE out \in {crenellate_grid_step(s, num_digits, cot_half, margin, k) : s \in {st}} : TRUE

crenellate_grid(g, num_digits, cot_half, margin) ==
    crenellate_grid_from([grid |-> g, log |-> <<>>, err |-> None, on_lattice |-> TRUE],
                         num_digits, cot_half, margin, 0)

-----------------------------------------------------------------------------
\* Specifications of the Constructor and of crenellate_grid on one Grid of
\* GridSize cells.  glog records the last operation: its name and arguments,
\* the grid before it (pre), the error it raised and, for crenellate_grid, the
\* crenellate_electrodes calls it made.

GridSizes == {<<2, 2>>}

Pitches == {12}

GridOrigins == {<<0, 0>>, <<0 - 6, 12>>}

NoOp == [op |-> "init", args |-> <<>>, err |-> None, pre |-> <<>>, calls |-> <<>>]

InitGrid ==
    /\ \E o \in GridOrigins, sz \in GridSizes, p \in Pitches : grid = Grid(o, sz, p)
    /\ next_refdes = 1
    /\ glog = NoOp
    /\ nops = 0
    /\ InitBoardIdle
    /\ InitEdgesIdle
    /\ elec = [k \in {} |-> 0]
    /\ theta = 1
    /\ last = [op |-> "init", err |-> None]
    /\ ncalls = 0

Session == [grid |-> grid, next_refdes |-> next_refdes]

\* the effect of a Constructor operation whose outcome is r = [c, err]
Constructed(op, args, r) ==
    /\ nops < MaxOps
    /\ grid' = r.c.grid
    /\ next_refdes' = r.c.next_refdes
    /\ glog' = [op |-> op, args |-> args, err |-> r.err, pre |-> grid, calls |-> <<>>]
    /\ nops' = nops + 1
    /\ UNCHANGED <<edge_vars, cren_vars, board_vars>>

Fill(pos) == Constructed("fill", <<pos>>, [c |-> fill(Session, pos), err |-> None])

FillRect(pos, size) == Constructed("fill_rect", <<pos, size>>, fill_rect(Session, pos, size))

FillVert(start, distance) ==
    Constructed("fill_vert", <<start, distance>>, fill_vert(Session, start, distance))

FillHoriz(start, distance) ==
    Constructed("fill_horiz", <<start, distance>>, fill_horiz(Session, start, distance))

FillAscii(lines) ==
    Constructed("fill_ascii", <<lines>>, [c |-> fill_ascii(Session, lines), err |-> None])

\* crenellate_grid(grid, num_digits, theta, margin); a call that raises leaves
\* the crenellations made before the error in place
CrenellateGrid(num_digits, margin) ==
    /\ nops < MaxOps
    /\ \E r \in {crenellate_grid(grid, num_digits, theta, margin)} :
        /\ r.on_lattice
        /\ grid' = r.grid
        /\ glog' = [op |-> "crenellate_grid", args |-> <<num_digits, theta, margin>>,
                    err |-> r.err, pre |-> grid, calls |-> r.log]
        /\ nops' = nops + 1
        /\ UNCHANGED <<next_refdes, edge_vars, cren_vars, board_vars>>

\* inputs of the fill operations: cells inside and outside a 2 x 2 allocation
FillCells == {<<0, 0>>, <<1, 0>>, <<0, 1>>, <<1, 1>>, <<2, 0>>, <<0, 0 - 1>>}

FillRects == {<<<<0, 0>>, <<2, 2>>>>, <<<<0, 1>>, <<2, 1>>>>, <<<<1, 0>>, <<2, 1>>>>, <<<<1, 1>>, <<0, 2>>>>}

FillLines == {<<<<0, 0>>, 2>>, <<<<1, 1>>, 0 - 2>>, <<<<1, 0>>, 3>>, <<<<0, 1>>, 0>>}

\* "\n XX\n_X", "X\n\n \nXXX" and " \t\nX_\tX" after splitlines()
Diagrams == {<< <<>>, <<" ", "X", "X">>, <<"_", "X">> >>,
             << <<"X">>, <<>>, <<" ">>, <<"X", "X", "X">> >>,
             << <<" ", "\t">>, <<"X", "_", "\t", "X">> >>}

NextFill ==
    \/ \E pos \in FillCells : Fill(pos)
    \/ \E r \in FillRects : FillRect(r[1], r[2])
    \/ \E l \in FillLines : FillVert(l[1], l[2])
    \/ \E l \in FillLines : FillHoriz(l[1], l[2])
    \/ \E d \in Diagrams : FillAscii(d)

SpecFill == InitGrid /\ [][NextFill]_vars

GridMargins == {0, 2}

NextGrid ==
    \/ \E pos \in FillCells : Fill(pos)
    \/ \E r \in {<<<<0, 0>>, <<2, 2>>>>} : FillRect(r[1], r[2])
    \/ \E n \in 1..MaxDigits, m \in GridMargins : CrenellateGrid(n, m)

SpecGrid == InitGrid /\ [][NextGrid]_vars

\* e.origin = origin on the electrode of one cell, as a script places an electrode
SetOrigin(pos, origin) ==
    /\ nops < MaxOps
    /\ pos \in DOMAIN grid.electrodes
    /\ grid' = [grid EXCEPT !.electrodes[pos].origin = origin]
    /\ glog' = [op |-> "set_origin", args |-> <<pos, origin>>, err |-> None, pre |-> grid,
                calls |-> <<>>]
    /\ nops' = nops + 1
    /\ UNCHANGED <<next_refdes, edge_vars, cren_vars, board_vars>>

\* a grid filled at once, electrodes moved off their cells, crenellate_grid
NextGridMoved ==
    \/ \E r \in {<<<<0, 0>>, <<2, 2>>>>, <<<<0, 0>>, <<2, 1>>>>} : FillRect(r[1], r[2])
    \/ \E pos \in {<<1, 0>>, <<1, 1>>}, shift \in {<<6, 0>>, <<0, 6>>} :
          SetOrigin(pos, <<pos[1] * grid.pitch + shift[1], pos[2] * grid.pitch + shift[2]>>)
    \/ \E n \in 1..MaxDigits, m \in GridMargins : CrenellateGrid(n, m)

SpecGridMoved == InitGrid /\ [][NextGridMoved]_vars

-----------------------------------------------------------------------------
\* types.py: Peripheral, BoardDesign; io.py: load_peripheral; construct.py:
\* Constructor.add_peripheral, reduce_board_to_electrodes.
\* A board is held by value: grids and peripherals are sequences in insertion
\* order.  A constructor c is [next_refdes, next_periph_id].

Peripheral(peripheral_class, peripheral_type, parent) ==
    [peripheral_class |-> peripheral_class, peripheral_type |-> peripheral_type,
     parent |-> parent, origin |-> <<0, 0>>, rotation |-> 0, id |-> None, electrodes |-> <<>>]

add_electrode(p, id, electrode) ==
    [p EXCEPT !.electrodes = Append(@, [id |-> id, electrode |-> electrode])]

RECURSIVE load_electrodes(_, _, _)
\* the loop of load_peripheral over data['electrodes'] from position k on
load_electrodes(p, es, k) ==
    IF k > Len(es) THEN p
    ELSE load_electrodes(
             add_electrode(p, es[k].id,
                           Electrode(es[k].polygon, <<0, 0>>, 0 - 1, "peripheral", es[k].anchor_pad)),
             es, k + 1)

\* load_peripheral on the decoded definition data = [class, type, electrodes]
load_peripheral(data) == load_electrodes(Peripheral(data.class, data.type, None), data.electrodes, 1)

BoardDesign == [grids |-> <<>>, peripherals |-> <<>>]

create_grid(b, origin, size, pitch) == [b EXCEPT !.grids = Append(@, Grid(origin, size, pitch))]

\* A mutation of add_peripheral: the electrodes all get the current designator
add_peripheral_one_refdes(c, b, peripheral, position, rotation) ==
    [c |-> [next_refdes |-> c.next_refdes + 1, next_periph_id |-> c.next_periph_id + 1],
     board |-> [b EXCEPT !.peripherals = Append(@,
         [peripheral EXCEPT
             !.id = c.next_periph_id,
             !.electrodes = [i \in 1..Len(peripheral.electrodes) |->
                 [peripheral.electrodes[i] EXCEPT !.electrode.refdes = c.next_refdes]],
             !.origin = position,
             !.rotation = rotation])]]

\* Constructor.add_peripheral: get_periph_id, then get_refdes for each electrode
\* in list order
add_peripheral(c, b, peripheral, position, rotation) ==
    [c |-> [next_refdes |-> c.next_refdes + Len(peripheral.electrodes),
            next_periph_id |-> c.next_periph_id + 1],
     board |-> [b EXCEPT !.peripherals = Append(@,
         [peripheral EXCEPT
             !.id = c.next_periph_id,
             !.electrodes = [i \in 1..Len(peripheral.electrodes) |->
                 [peripheral.electrodes[i] EXCEPT !.electrode.refdes = c.next_refdes + i - 1]],
             !.origin = position,
             !.rotation = rotation])]]

\* the values of grid.electrodes.items() in dict order
grid_electrodes(g) == [i \in 1..Len(g.order) |-> g.electrodes[g.order[i]]]

periph_electrodes(p) == [i \in 1..Len(p.electrodes) |-> p.electrodes[i].electrode]

RECURSIVE Flatten(_)
\* the lists of a sequence of lists, appended one after the other
Flatten(ss) == IF ss = <<>> THEN <<>> ELSE Head(ss) \o Flatten(Tail(ss))

\* A mutation of all_electrodes: peripherals before grids
all_electrodes_peripherals_first(b) ==
    Flatten([i \in 1..Len(b.peripherals) |-> periph_electrodes(b.peripherals[i])])
    \o Flatten([i \in 1..Len(b.grids) |-> grid_electrodes(b.grids[i])])

\* BoardDesign.all_electrodes
all_electrodes(b) ==
    Flatten([i \in 1..Len(b.grids) |-> grid_electrodes(b.grids[i])])
    \o Flatten([i \in 1..Len(b.peripherals) |-> periph_electrodes(b.peripherals[i])])

\* construct.reduce_board_to_electrodes
reduce_board_to_electrodes(b) ==
    Flatten([i \in 1..Len(b.grids) |-> grid_electrodes(b.grids[i])])
    \o Flatten([i \in 1..Len(b.peripherals) |-> periph_electrodes(b.peripherals[i])])

-----------------------------------------------------------------------------
\* Specification of one Constructor working on one BoardDesign, as in
\* examples/basic/board_layout.py: the board starts with one grid; grids are
\* created and filled, freshly loaded peripherals are attached, and the board
\* is flattened.  glog records the last operation and the board before it.

BoardGridSize == <<2, 1>>

BoardGridOrigins == <<<<0, 0>>, <<0, 24>>>>

\* decoded peripheral definition files
PeripheralFiles ==
    {[class |-> "reservoir", type |-> "two",
      electrodes |-> <<[id |-> "A", polygon |-> <<<<0, 0>>, <<6, 0>>, <<6, 6>>, <<0, 6>>>>,
                        anchor_pad |-> <<3, 3>>],
                       [id |-> "B", polygon |-> <<<<6, 0>>, <<12, 0>>, <<12, 6>>, <<6, 6>>>>,
                        anchor_pad |-> <<0, 0>>]>>],
     [class |-> "pad", type |-> "one",
      electrodes |-> <<[id |-> "A", polygon |-> <<<<0, 0>>, <<4, 0>>, <<0, 4>>>>,
                        anchor_pad |-> <<1, 1>>]>>]}

InitBoard ==
    /\ board = create_grid(BoardDesign, BoardGridOrigins[1], BoardGridSize, 12)
    /\ next_refdes = 1
    /\ next_periph_id = 1
    /\ glog = NoOp
    /\ nops = 0
    /\ lists = <<>>
    /\ board_copy = <<>>
    /\ grid = [origin |-> <<0, 0>>, size |-> <<0, 0>>, pitch |-> 0]
    /\ InitEdgesIdle
    /\ InitFreeIdle

\* the effect of an operation that leaves the board b and the constructor c
BoardOp(op, args, b, c, err) ==
    /\ board' = b
    /\ next_refdes' = c.next_refdes
    /\ next_periph_id' = c.next_periph_id
    /\ glog' = [op |-> op, args |-> args, err |-> err, pre |-> board, calls |-> <<>>]
    /\ nops' = nops + 1
    /\ UNCHANGED <<grid, lists, board_copy, edge_vars, cren_vars>>

CreateGrid ==
    /\ nops < MaxOps
    /\ Len(board.grids) < Len(BoardGridOrigins)
    /\ BoardOp("create_grid", <<>>,
               create_grid(board, BoardGridOrigins[Len(board.grids) + 1], BoardGridSize, 12),
               [next_refdes |-> next_refdes, next_periph_id |-> next_periph_id], None)

\* a fill operation on grid g of the board, whose outcome is r = [c, err]
BoardFilled(op, args, g, r) ==
    BoardOp(op, <<g>> \o args, [board EXCEPT !.grids[g] = r.c.grid],
            [next_refdes |-> r.c.next_refdes, next_periph_id |-> next_periph_id], r.err)

GridSession(g) == [grid |-> board.grids[g], next_refdes |-> next_refdes]

BoardFill(g, pos) ==
    /\ nops < MaxOps
    /\ BoardFilled("fill", <<pos>>, g, [c |-> fill(GridSession(g), pos), err |-> None])

BoardFillRect(g, pos, size) ==
    /\ nops < MaxOps
    /\ BoardFilled("fill_rect", <<pos, size>>, g, fill_rect(GridSession(g), pos, size))

BoardFillVert(g, start, distance) ==
    /\ nops < MaxOps
    /\ BoardFilled("fill_vert", <<start, distance>>, g, fill_vert(GridSession(g), start, distance))

BoardFillHoriz(g, start, distance) ==
    /\ nops < MaxOps
    /\ BoardFilled("fill_horiz", <<start, distance>>, g,
                   fill_horiz(GridSession(g), start, distance))

BoardFillAscii(g, lines) ==
    /\ nops < MaxOps
    /\ BoardFilled("fill_ascii", <<lines>>, g,
                   [c |-> fill_ascii(GridSession(g), lines), err |-> None])

AddPeripheral(data, position, rotation) ==
    /\ nops < MaxOps
    /\ \E r \in {add_peripheral([next_refdes |-> next_refdes, next_periph_id |-> next_periph_id],
                                board, load_peripheral(data), position, rotation)} :
          BoardOp("add_peripheral", <<data.type, position, rotation>>, r.board, r.c, None)

\* board.all_electrodes() and reduce_board_to_electrodes(board): glog.calls
\* holds the two lists returned
AllElectrodes ==
    /\ glog' = [op |-> "all_electrodes", args |-> <<>>, err |-> None, pre |-> board,
                calls |-> <<all_electrodes(board), reduce_board_to_electrodes(board)>>]
    /\ UNCHANGED <<board, next_refdes, next_periph_id, nops, grid, lists, board_copy,
                   edge_vars, cren_vars>>

NextBoard ==
    \/ CreateGrid
    \/ \E g \in 1..Len(board.grids) :
          \/ \E pos \in {<<0, 0>>, <<1, 0>>} : BoardFill(g, pos)
          \/ BoardFillRect(g, <<0, 0>>, <<2, 1>>)
          \/ BoardFillVert(g, <<1, 0>>, 1)
          \/ \E d \in {2, 0 - 2} : BoardFillHoriz(g, <<1, 0>>, d)
          \/ BoardFillAscii(g, <<<<"_", "X">>>>)
    \/ \E data \in PeripheralFiles : AddPeripheral(data, <<24, 6>>, 1)
    \/ AllElectrodes

SpecBoard == InitBoard /\ [][NextBoard]_vars

-----------------------------------------------------------------------------
\* Specification of one Peripheral, held in elec: electrodes are added under
\* caller-chosen ids and looked up by id; `last` records the call.

NoElectrode == "IndexError: No electrode with id"

\* Peripheral.electrode: the first entry whose id matches, IndexError if none
electrode(p, id) ==
    IF \E i \in 1..Len(p.electrodes) : p.electrodes[i].id = id
    THEN [err |-> None,
          electrode |-> p.electrodes[CHOOSE i \in 1..Len(p.electrodes) :
                                         /\ p.electrodes[i].id = id
                                         /\ \A j \in 1..(i - 1) : p.electrodes[j].id # id].electrode]
    ELSE [err |-> NoElectrode, electrode |-> None]

InitPeripheral ==
    /\ \E class \in {"reservoir", "pad"} : elec = Peripheral(class, "custom", None)
    /\ theta = 1
    /\ last = NoCall
    /\ ncalls = 0
    /\ InitEdgesIdle
    /\ InitGridIdle

\* p.add_electrode(id, Electrode(points, parent=p))
AddElectrode(id, points) ==
    /\ elec' = add_electrode(elec, id, Electrode(points, <<0, 0>>, 0 - 1, "peripheral", <<0, 0>>))
    /\ Called("add_electrode", <<id, points>>, None, <<>>)

\* p.electrode(id)
GetElectrode(id) ==
    /\ UNCHANGED elec
    /\ \E r \in {electrode(elec, id)} : Called("electrode", <<id>>, r.err, <<r.electrode>>)

NextPeripheral ==
    /\ ncalls < MaxCalls
    /\ \/ \E id \in {"A", "B"} :
             \E points \in {RectA(6, 0, 6), RectA(12, 0, 6), <<<<0, 0>>, <<4, 0>>, <<0, 4>>>>} :
                AddElectrode(id, points)
       \/ \E id \in {"A", "B", "C"} : GetElectrode(id)

SpecPeripheral == InitPeripheral /\ [][NextPeripheral]_vars

-----------------------------------------------------------------------------
\* types.py: Electrode.copy, Grid.copy, Peripheral.copy, BoardDesign.copy.
\* Here an electrode's points field holds a reference: the index in the heap
\* `lists` of the Python list its vertices are kept in.  insert_points changes
\* that list in place, so two electrodes holding the same reference change
\* together.

\* the electrode with its vertex list read from heap h
Deref(h, e) == [e EXCEPT !.points = h[e.points]]

\* A mutation of Electrode_copy: the vertex list is not copied
Electrode_copy_shared(e, id) == Electrode(e.points, e.origin, e.refdes, e.parent, e.anchor_pad)

\* Electrode.copy: id refers to the list deepcopy(self.points) made; the parent
\* stays the original's parent
Electrode_copy(e, id) == Electrode(id, e.origin, e.refdes, e.parent, e.anchor_pad)

\* Grid.copy; ids maps a refdes to the reference of the electrode's new list
Grid_copy(g, ids) ==
    [Grid(g.origin, g.size, g.pitch) EXCEPT
        !.electrodes = [pos \in DOMAIN g.electrodes |->
                           Electrode_copy(g.electrodes[pos], ids[g.electrodes[pos].refdes])],
        !.order = g.order]

\* Peripheral.copy
Peripheral_copy(p, ids) ==
    [Peripheral(p.peripheral_class, p.peripheral_type, p.parent) EXCEPT
        !.origin = p.origin,
        !.rotation = p.rotation,
        !.id = p.id,
        !.electrodes = [i \in 1..Len(p.electrodes) |->
                           [id |-> p.electrodes[i].id,
                            electrode |-> Electrode_copy(p.electrodes[i].electrode,
                                                         ids[p.electrodes[i].electrode.refdes])]]]

\* BoardDesign.copy on heap h: the new board and the heap with the lists the
\* electrodes' copies made
BoardDesign_copy(h, b) ==
    LET es == all_electrodes(b)
        ids == [r \in {es[k].refdes : k \in 1..Len(es)} |->
                   Len(h) + (CHOOSE k \in 1..Len(es) : es[k].refdes = r)]
    IN  [heap |-> h \o [k \in 1..Len(es) |-> h[es[k].points]],
         board |-> [grids |-> [i \in 1..Len(b.grids) |-> Grid_copy(b.grids[i], ids)],
                    peripherals |-> [i \in 1..Len(b.peripherals) |->
                                        Peripheral_copy(b.peripherals[i], ids)]]]

-----------------------------------------------------------------------------
\* Specification of a board and its copy, as in board_layout.py: a grid of two
\* filled cells and a peripheral whose electrode touches the second cell; the
\* board is copied, and points are inserted into and crenellations made on
\* electrodes of the original and of the copy.  glog.snap is what the board
\* held when the copy was taken, glog.touched the boards changed since.

\* the transform nodes the electrodes of board b reach through their parents
BoardStore(b) ==
    ("grid" :> [origin |-> b.grids[1].origin, rotation |-> 0, parent |-> None])
    @@ ("peripheral" :> [origin |-> b.peripherals[1].origin,
                         rotation |-> b.peripherals[1].rotation, parent |-> None])

\* the board of the session before its vertex lists are put on the heap
BuiltBoard(origin) ==
    LET b == create_grid(BoardDesign, origin, BoardGridSize, 12)
        f == fill_rect([grid |-> b.grids[1], next_refdes |-> 1], <<0, 0>>, BoardGridSize).c
        data == CHOOSE d \in PeripheralFiles : d.type = "two"
    IN  add_peripheral([next_refdes |-> f.next_refdes, next_periph_id |-> 1],
                       [b EXCEPT !.grids[1] = f.grid], load_peripheral(data),
                       VAdd(origin, <<30, 3>>), 1)

\* every electrode's vertex list replaced by the reference ids[refdes]
Referenced(b, ids) ==
    [grids |-> [i \in 1..Len(b.grids) |->
                   [b.grids[i] EXCEPT !.electrodes =
                       [pos \in DOMAIN b.grids[i].electrodes |->
                           [b.grids[i].electrodes[pos] EXCEPT
                               !.points = ids[b.grids[i].electrodes[pos].refdes]]]]],
     peripherals |-> [i \in 1..Len(b.peripherals) |->
                   [b.peripherals[i] EXCEPT !.electrodes =
                       [k \in 1..Len(b.peripherals[i].electrodes) |->
                           [b.peripherals[i].electrodes[k] EXCEPT
                               !.electrode.points =
                                   ids[b.peripherals[i].electrodes[k].electrode.refdes]]]]]]

\* what board b holds on heap h: for each electrode its vertex ring, its ring
\* in board coordinates, its refdes and its anchor
Content(b, h) ==
    LET es == all_electrodes(b)
    IN  [k \in 1..Len(es) |->
            [ring |-> h[es[k].points],
             board_ring |-> offset_points(BoardStore(board), Deref(h, es[k])),
             refdes |-> es[k].refdes,
             anchor_pad |-> es[k].anchor_pad]]

InitCopy ==
    /\ \E origin \in {<<0, 0>>, <<0 - 6, 12>>} : \E r \in {BuiltBoard(origin)} :
          /\ board = Referenced(r.board, [n \in 1..(r.c.next_refdes - 1) |-> n])
          /\ lists = [n \in 1..(r.c.next_refdes - 1) |->
                         (CHOOSE e \in {all_electrodes(r.board)[k] : k \in 1..(r.c.next_refdes - 1)} :
                              e.refdes = n).points]
          /\ next_refdes = r.c.next_refdes
          /\ next_periph_id = r.c.next_periph_id
    /\ board_copy = <<>>
    /\ glog = [op |-> "init", args |-> <<>>, err |-> None, snap |-> <<>>, touched |-> {}]
    /\ nops = 0
    /\ grid = [origin |-> <<0, 0>>, size |-> <<0, 0>>, pitch |-> 0]
    /\ InitEdgesIdle
    /\ InitFreeIdle

\* original_board = board.copy()
Copy ==
    /\ nops < MaxOps
    /\ board_copy = <<>>
    /\ \E r \in {BoardDesign_copy(lists, board)} :
          /\ board_copy' = <<r.board>>
          /\ lists' = r.heap
    /\ glog' = [op |-> "copy", args |-> <<>>, err |-> None,
                snap |-> Content(board, lists), touched |-> {}]
    /\ nops' = nops + 1
    /\ UNCHANGED <<board, next_refdes, next_periph_id, grid, edge_vars, cren_vars>>

\* the electrode with designator refdes of the board named side
ElectrodeOf(side, refdes) ==
    LET es == all_electrodes(IF side = "board" THEN board ELSE board_copy[1])
    IN  CHOOSE e \in {es[k] : k \in 1..Len(es)} : e.refdes = refdes

\* the record of a change of the heap by a call on electrodes of one board
Mutated(op, side, args, err) ==
    /\ glog' = [op |-> op, args |-> <<side>> \o args, err |-> err, snap |-> glog.snap,
                touched |-> IF board_copy = <<>> \/ lists' = lists THEN glog.touched
                            ELSE glog.touched \cup {side}]
    /\ nops' = nops + 1
    /\ UNCHANGED <<board, board_copy, next_refdes, next_periph_id, grid, edge_vars, cren_vars>>

\* e.insert_offset_points(index, points), or e.insert_points(index, points)
\* when offset is FALSE, on the electrode refdes of one board
InsertOn(side, refdes, index, points, offset) ==
    /\ nops < MaxOps
    /\ side = "copy" => board_copy # <<>>
    /\ \E e \in {ElectrodeOf(side, refdes)} :
          lists' = [lists EXCEPT ![e.points] =
                       IF offset
                       THEN insert_offset_points(BoardStore(board), Deref(lists, e), index, points,
                                                 TRUE).points
                       ELSE insert_points(lists[e.points], index, points, TRUE)]
    /\ Mutated(IF offset THEN "insert_offset_points" ELSE "insert_points", side,
               <<refdes, index, points>>, None)

\* crenellate_electrodes(a, b, num_digits, theta, margin) on two electrodes of
\* one board
CrenellateOn(side, refdes_a, refdes_b, num_digits, margin) ==
    /\ nops < MaxOps
    /\ side = "copy" => board_copy # <<>>
    /\ \E a \in {ElectrodeOf(side, refdes_a)} : \E b \in {ElectrodeOf(side, refdes_b)} :
          \E r \in {crenellate_electrodes(BoardStore(board), Deref(lists, a), Deref(lists, b),
                                          num_digits, 1, margin, 0 - 1, 0 - 1)} :
             /\ r.on_lattice
             /\ lists' = IF r.err = None
                         THEN [lists EXCEPT ![a.points] = r.a.points, ![b.points] = r.b.points]
                         ELSE lists
             /\ Mutated("crenellate_electrodes", side, <<refdes_a, refdes_b, num_digits, margin>>,
                        r.err)

\* crenellate_grid(grid, num_digits, theta, margin) on the grid of one board; a
\* call that raises leaves the crenellations made before the error in place
CrenellateGridOn(side, num_digits, margin) ==
    /\ nops < MaxOps
    /\ side = "copy" => board_copy # <<>>
    /\ \E g \in {(IF side = "board" THEN board ELSE board_copy[1]).grids[1]} :
          \E r \in {crenellate_grid([g EXCEPT !.electrodes =
                                        [pos \in DOMAIN g.electrodes |->
                                            Deref(lists, g.electrodes[pos])]],
                                    num_digits, 1, margin)} :
             /\ r.on_lattice
             /\ lists' = [id \in 1..Len(lists) |->
                             IF \E pos \in DOMAIN g.electrodes : g.electrodes[pos].points = id
                             THEN r.grid.electrodes[CHOOSE pos \in DOMAIN g.electrodes :
                                                       g.electrodes[pos].points = id].points
                             ELSE lists[id]]
             /\ Mutated("crenellate_grid", side, <<num_digits, margin>>, r.err)

NextCopy ==
    \/ Copy
    \/ \E side \in {"board", "copy"} :
          \/ \E refdes \in {1, 3} : InsertOn(side, refdes, 1, <<<<5, 7>>>>, TRUE)
          \/ InsertOn(side, 1, 1, <<<<1, 1>>, <<2, 5>>>>, FALSE)
          \/ \E pair \in {<<1, 2>>, <<2, 3>>} : \E n \in 1..MaxDigits :
                CrenellateOn(side, pair[1], pair[2], n, 0)
          \/ CrenellateGridOn(side, 1, 0)

SpecCopy == InitCopy /\ [][NextCopy]_vars

\* the record of a change of a container of the original board
Moved(op, args) ==
    /\ glog' = [glog EXCEPT !.op = op, !.args = args, !.err = None]
    /\ nops' = nops + 1
    /\ UNCHANGED <<board_copy, lists, next_refdes, next_periph_id, grid, edge_vars, cren_vars>>

\* board.grids[0].origin = origin
SetGridOrigin(origin) ==
    /\ nops < MaxOps
    /\ board' = [board EXCEPT !.grids[1].origin = origin]
    /\ Moved("grid.origin", <<origin>>)

\* peripheral.origin = position; peripheral.rotation = rotation on the
\* peripheral of the original board, as Constructor.add_peripheral places it
PlacePeripheral(position, rotation) ==
    /\ nops < MaxOps
    /\ board' = [board EXCEPT !.peripherals[1].origin = position,
                              !.peripherals[1].rotation = rotation]
    /\ Moved("peripheral.origin", <<position, rotation>>)

\* a board is copied and containers of the original are moved, before or
\* after; points are inserted into an electrode of either board
NextCopyMoved ==
    \/ Copy
    \/ \E origin \in {<<0, 0>>, <<6, 0>>} : SetGridOrigin(origin)
    \/ \E place \in {<<<<30, 3>>, 0>>, <<<<24, 15>>, 1>>} : PlacePeripheral(place[1], place[2])
    \/ \E side \in {"board", "copy"} : InsertOn(side, 1, 1, <<<<5, 7>>>>, TRUE)

SpecCopyMoved == InitCopy /\ [][NextCopyMoved]_vars

-----------------------------------------------------------------------------
\* Geometry the claims are stated in, written independently of the code

\* p lies on the closed segment s: colinear with it and inside its bounding box
OnSegment(p, s) ==
    /\ Cross(VSub(s[2], s[1]), VSub(p, s[1])) = 0
    /\ Min(s[1][1], s[2][1]) <= p[1] /\ p[1] <= Max(s[1][1], s[2][1])
    /\ Min(s[1][2], s[2][2]) <= p[2] /\ p[2] <= Max(s[1][2], s[2][2])

\* segment t is fully contained in segment s
ContainedIn(t, s) == OnSegment(t[1], s) /\ OnSegment(t[2], s)

Containment(s, t) == ContainedIn(s, t) \/ ContainedIn(t, s)

Colinear(s, t) ==
    /\ Cross(VSub(s[2], s[1]), VSub(t[1], s[1])) = 0
    /\ Cross(VSub(s[2], s[1]), VSub(t[2], s[1])) = 0

-----------------------------------------------------------------------------
\* Claims about crenellate_electrodes, stated on the record of the last call

Returned == last.op = "crenellate_electrodes" /\ last.err = None

\* the two electrodes of the last call, before and after it, in board coordinates
PreRing(k) == offset_points(NoStore, last.pre[k])

PostRing(k) == offset_points(NoStore, elec[k])

Growth(k) == Len(elec[k].points) - Len(last.pre[k].points)

EndPoints(e) == {e[1], e[2]}

NonDegenerate(e) == e[1] # e[2]

\* no two cyclically adjacent vertices of the ring are closer than the pruning tolerance
NoZeroLengthEdge(ring) ==
    \A i \in 1..Len(ring) : ~Close(ring[i], ring[(i % Len(ring)) + 1])

\* the last call was made on a valid shared-edge pair: two well-formed rings
\* whose chosen edges are non-degenerate, colinear and one inside the other
ValidPair ==
    /\ Returned
    /\ NoZeroLengthEdge(PreRing(last.a)) /\ NoZeroLengthEdge(PreRing(last.b))
    /\ NonDegenerate(last.edge_a) /\ NonDegenerate(last.edge_b)
    /\ Containment(last.edge_a, last.edge_b)

\* C1: the reference edge for the finger geometry is whichever of the two
\* candidate edges has the smaller Euclidean length, wherever the electrodes
\* lie on the board.
C1_ReferenceIsShorterEdge ==
    ValidPair =>
        EdgeLengthSq(last.short_edge)
            = Min(EdgeLengthSq(last.edge_a), EdgeLengthSq(last.edge_b))

\* C5: a second call with the same arguments on the same pair, after a call
\* that returned, fails with the no-shared-edge error and leaves both vertex
\* rings as the first call left them.
C5_SecondCallFailsUnchanged ==
    (/\ last.op = "crenellate_electrodes"
     /\ last.prev = <<last.a, last.b, last.num_digits, last.cot_half, last.margin, None>>)
        => (last.err = NoEdges /\ elec = last.pre)

\* C6: after a call on a valid shared-edge pair, for every margin >= 0, neither
\* polygon has two cyclically adjacent vertices closer than the pruning
\* tolerance.
C6_NoZeroLengthEdgeCreated ==
    (ValidPair /\ last.margin >= 0) =>
        (NoZeroLengthEdge(PostRing(last.a)) /\ NoZeroLengthEdge(PostRing(last.b)))

\* C7 as stated: the vertex count of a plus the vertex count of b grows by
\* num_digits + 1.
C7_GrowsByDigitsPlusOne ==
    ValidPair => Growth(last.a) + Growth(last.b) = last.num_digits + 1

\* the end points of the reference edge that are not end points of edge e
NewEnds(e) == {p \in EndPoints(last.short_edge) : p \notin EndPoints(e)}

\* C7 amended: each polygon gains the num_digits + 2 points of
\* create_crenellated_edge and, besides, each end point of the reference edge
\* that is not an end point of its own chosen edge; for coincident edges the
\* two vertex counts grow by 2 * (num_digits + 2) in total.
C7_GrowsByDigitsPlusTwoEach ==
    ValidPair =>
        /\ Growth(last.a) = last.num_digits + 2 + Cardinality(NewEnds(last.edge_a))
        /\ Growth(last.b) = last.num_digits + 2 + Cardinality(NewEnds(last.edge_b))
        /\ EndPoints(last.edge_a) = EndPoints(last.edge_b)
              => Growth(last.a) + Growth(last.b) = 2 * (last.num_digits + 2)

\* a call on edges of different length: one polygon also gains an end point of the reference edge
C7_Witness ==
    /\ ValidPair
    /\ Growth(last.a) + Growth(last.b) > 2 * (last.num_digits + 2)

\* the len points of a ring that start at vertex i (counted from 0), cyclically
Slice(ring, i, len) == [k \in 1..len |-> ring[((i + k - 1) % Len(ring)) + 1]]

\* the chosen edges of the last call run in opposite directions
Opposite == Dot(VSub(last.edge_a[2], last.edge_a[1]), VSub(last.edge_b[2], last.edge_b[1])) < 0

\* the places in the ring of electrode k, whose chosen edge was edge idx, where
\* the replacement polyline (both end points of the reference edge and the
\* num_digits + 2 points between them) can start
PolylineStarts(k, idx) == {i \in {idx, idx + 1} : i - idx + last.num_digits + 3 <= Growth(k) + 1}

\* C8: the polyline that replaces the shared segment in a's ring is the same
\* sequence of board points as the one in b's ring, read in reverse when the
\* two chosen edges run in opposite directions.
C8_SamePolylineInBoth ==
    ValidPair =>
        \E i \in PolylineStarts(last.a, last.edge_a_idx) :
        \E j \in PolylineStarts(last.b, last.edge_b_idx) :
            LET len == last.num_digits + 4
                PA == Slice(PostRing(last.a), i, len)
                PB == Slice(PostRing(last.b), j, len)
            IN  /\ {PA[1], PA[len]} = EndPoints(last.short_edge)
                /\ PB = IF Opposite THEN Reverse(PA) ELSE PA

\* a call on opposite edges of different length, with two fingers and a margin
C8_Witness ==
    /\ ValidPair
    /\ Opposite
    /\ last.num_digits = 2 /\ last.margin > 0
    /\ EndPoints(last.edge_a) # EndPoints(last.edge_b)

-----------------------------------------------------------------------------
\* Claims about the Constructor and crenellate_grid

InAllocation(g, k) == 0 <= k[1] /\ k[1] < g.size[1] /\ 0 <= k[2] /\ k[2] < g.size[2]

FillOps == {"fill", "fill_rect", "fill_vert", "fill_horiz", "fill_ascii"}

\* C10: after any sequence of fill operations every occupied key lies in
\* [0, width) x [0, height), and no fill operation, whether it returns or
\* raises, creates an electrode at a key outside the allocation.
C10_KeysInsideAllocation ==
    /\ \A k \in DOMAIN grid.electrodes : InAllocation(grid, k)
    /\ glog.op \in FillOps =>
          \A k \in (DOMAIN grid.electrodes) \ (DOMAIN glog.pre.electrodes) : InAllocation(grid, k)

\* the pairs <<p, q>> of occupied cells of g with q the right or bottom neighbour of p
NeighbourPairs(g) ==
    {pq \in (DOMAIN g.electrodes) \X (DOMAIN g.electrodes) :
        pq[2] = <<pq[1][1] + 1, pq[1][2]>> \/ pq[2] = <<pq[1][1], pq[1][2] + 1>>}

\* the calls of the last crenellate_grid made on the unordered pair {p, q}
CallsOn(p, q) == {i \in 1..Len(glog.calls) : {glog.calls[i].a, glog.calls[i].b} = {p, q}}

\* C9: crenellate_grid calls crenellate_electrodes exactly once for every
\* unordered pair of occupied neighbouring cells and for no other pair; on a
\* fully populated 2 x 2 grid these are 4 calls.
C9_EachNeighbourPairOnce ==
    (glog.op = "crenellate_grid" /\ glog.err = None) =>
        /\ \A pq \in NeighbourPairs(glog.pre) : Cardinality(CallsOn(pq[1], pq[2])) = 1
        /\ \A i \in 1..Len(glog.calls) :
              \/ <<glog.calls[i].a, glog.calls[i].b>> \in NeighbourPairs(glog.pre)
              \/ <<glog.calls[i].b, glog.calls[i].a>> \in NeighbourPairs(glog.pre)
        /\ DOMAIN glog.pre.electrodes = (0..1) \X (0..1) => Len(glog.calls) = 4

\* C9 on a grid whose occupied keys all lie inside the allocation
C9_InsideAllocation ==
    (/\ glog.op = "crenellate_grid"
     /\ \A k \in DOMAIN glog.pre.electrodes : InAllocation(glog.pre, k)) => C9_EachNeighbourPairOnce

\* <<i, j>> comes before <<k, l>> in lexicographic order
LexLess(ij, kl) == ij[1] < kl[1] \/ (ij[1] = kl[1] /\ ij[2] < kl[2])

EdgePairs(c) == (0..(Len(c.ring_a) - 1)) \X (0..(Len(c.ring_b) - 1))

Overlapping(c, ij) == do_edges_overlap(RingEdge(c.ring_a, ij[1]), RingEdge(c.ring_b, ij[2]))

\* call c was made on two uncrenellated squares, b one pitch to the right of a
SquaresSideBySide(c) ==
    /\ c.b = <<c.a[1] + 1, c.a[2]>>
    /\ Len(c.ring_a) = 4 /\ Len(c.ring_b) = 4

\* the x coordinates of the end points of edge n of a ring
EdgeXs(ring, n) == {RingEdge(ring, n)[1][1], RingEdge(ring, n)[2][1]}

RingXs(ring) == {ring[i][1] : i \in 1..Len(ring)}

IsMax(x, S) == x \in S /\ \A y \in S : y <= x

IsMin(x, S) == x \in S /\ \A y \in S : y >= x

\* C4: in every crenellate_electrodes call of crenellate_grid the pair that
\* find_overlapping_edges returned is the lexicographically smallest pair
\* (edge of a, edge of b) of overlapping board edges, None only when no pair
\* overlaps; for two uncrenellated grid squares, b to the right of a, it is
\* a's right edge and b's left edge.
C4_FirstPairInScanOrder ==
    \A i \in 1..Len(glog.calls) :
        LET c == glog.calls[i]
        IN  /\ c.edges = <<>> => \A ij \in EdgePairs(c) : ~Overlapping(c, ij)
            /\ c.edges # <<>> =>
                  /\ Overlapping(c, c.edges)
                  /\ \A ij \in EdgePairs(c) : LexLess(ij, c.edges) => ~Overlapping(c, ij)
            /\ SquaresSideBySide(c) =>
                  /\ c.edges = <<2, 0>>
                  /\ \E x \in EdgeXs(c.ring_a, 2) :
                        /\ EdgeXs(c.ring_a, 2) = {x} /\ IsMax(x, RingXs(c.ring_a))
                        /\ EdgeXs(c.ring_b, 0) = {x} /\ IsMin(x, RingXs(c.ring_b))

\* a call on two fresh squares side by side, and in the same pass a call in which
\* more than one pair of edges overlaps
C4_Witness ==
    /\ glog.op = "crenellate_grid"
    /\ \E i \in 1..Len(glog.calls) : SquaresSideBySide(glog.calls[i])
    /\ \E i \in 1..Len(glog.calls) :
          Cardinality({ij \in EdgePairs(glog.calls[i]) : Overlapping(glog.calls[i], ij)}) > 1

-----------------------------------------------------------------------------
\* Claims about the Constructor's counters and the flattening of a board

RefdesOf(es) == [i \in 1..Len(es) |-> es[i].refdes]

Increasing(ns) == \A i \in 1..Len(ns) : \A j \in 1..Len(ns) : i < j => ns[i] < ns[j]

\* the designators the electrodes of board b hold
HeldRefdes(b) == {all_electrodes(b)[i].refdes : i \in 1..Len(all_electrodes(b))}

\* C11: every electrode all_electrodes returns has refdes >= 1, no two of them
\* share a refdes, the designators issued are exactly 1..next_refdes-1, each
\* operation hands out designators larger than all issued before it and in the
\* order it creates or attaches electrodes, and peripheral ids are 1, 2, 3, ...
\* in attach order from the separate counter next_periph_id.
C11_RefdesUniqueAndMonotonic ==
    LET es == all_electrodes(board)
    IN  /\ \A i \in 1..Len(es) : es[i].refdes >= 1
        /\ \A i \in 1..Len(es) : \A j \in 1..Len(es) : i # j => es[i].refdes # es[j].refdes
        /\ HeldRefdes(board) = 1..(next_refdes - 1)
        /\ glog.op # "init" =>
              \A n \in HeldRefdes(board) \ HeldRefdes(glog.pre) :
                  \A m \in HeldRefdes(glog.pre) : m < n
        /\ \A g \in 1..Len(board.grids) : Increasing(RefdesOf(grid_electrodes(board.grids[g])))
        /\ Increasing(RefdesOf(Flatten([i \in 1..Len(board.peripherals) |->
                                           periph_electrodes(board.peripherals[i])])))
        /\ \A i \in 1..Len(board.peripherals) : board.peripherals[i].id = i
        /\ next_periph_id = Len(board.peripherals) + 1

\* two peripherals attached with a grid cell filled between them, and a grid
\* filled after a peripheral with two electrodes
C11_Witness ==
    /\ Len(board.peripherals) = 2
    /\ \E g \in 1..Len(board.grids) : \E k \in DOMAIN board.grids[g].electrodes :
          /\ board.grids[g].electrodes[k].refdes > board.peripherals[1].electrodes[1].electrode.refdes
          /\ board.grids[g].electrodes[k].refdes < board.peripherals[2].electrodes[1].electrode.refdes
    /\ \E i \in 1..2 : Len(board.peripherals[i].electrodes) = 2

-----------------------------------------------------------------------------
\* Claims about the arguments of crenellate_electrodes

\* the call went past the choice of the two edges
ReachedEdge == Returned \/ (last.op = "crenellate_electrodes" /\ last.err \notin {OneEdge, NoEdges, BadEdge})

\* (segment_length - 2 * margin) / num_digits <= 0 for the call's short edge
FingerWidthNotPositive ==
    \/ (last.num_digits > 0 /\ EdgeLengthSq(last.short_edge) <= 4 * last.margin * last.margin)
    \/ (last.num_digits < 0 /\ EdgeLengthSq(last.short_edge) >= 4 * last.margin * last.margin)

\* C12: a call of crenellate_electrodes that reaches create_crenellated_edge
\* with num_digits < 1 or with a finger width that is not positive fails with
\* an error, hands back no points and leaves both electrodes as they were.
C12_BadParametersRejected ==
    (ReachedEdge /\ (last.num_digits < 1 \/ FingerWidthNotPositive))
        => (last.err # None /\ last.new_points = <<>> /\ elec = last.pre)

\* the ring of electrode k kept its vertices up to vertex idx in place and the
\* vertices after it follow at least two inserted points
InsertedAfter(k, idx) ==
    /\ Growth(k) >= 2
    /\ \A j \in 1..(idx + 1) : PostRing(k)[j] = PreRing(k)[j]
    /\ \A j \in (idx + 2)..Len(PreRing(k)) : PostRing(k)[j + Growth(k)] = PreRing(k)[j]

\* the last call returned after working on edge ia of a and edge ib of b
UsedEdges(ia, ib) ==
    /\ Returned
    /\ last.edge_a = offset_edge(NoStore, last.pre[last.a], ia)
    /\ last.edge_b = offset_edge(NoStore, last.pre[last.b], ib)
    /\ InsertedAfter(last.a, ia)
    /\ InsertedAfter(last.b, ib)

\* C13: a call with exactly one of edge_a_idx, edge_b_idx supplied raises the
\* one-edge error and leaves both electrodes as they were; a call with both
\* supplied never raises the no-overlap error and, when it returns, has worked
\* on exactly the supplied edges; a call with neither supplied works on the
\* pair find_overlapping_edges returns and raises the no-overlap error when
\* there is none.
C13_EdgeIndexArguments ==
    last.op = "crenellate_electrodes" =>
        LET ia == last.given[1]
            ib == last.given[2]
            edges == find_overlapping_edges(NoStore, last.pre[last.a], last.pre[last.b])
        IN  /\ ((ia = 0 - 1) # (ib = 0 - 1)) => (last.err = OneEdge /\ elec = last.pre)
            /\ (ia # 0 - 1 /\ ib # 0 - 1) =>
                  /\ last.err \in {None, BadEdge}
                  /\ last.err = None => UsedEdges(ia, ib)
                  /\ last.err # None => elec = last.pre
            /\ (ia = 0 - 1 /\ ib = 0 - 1) =>
                  IF edges = <<>> THEN last.err = NoEdges /\ elec = last.pre
                  ELSE UsedEdges(edges[1], edges[2])

\* after a call that raised the one-edge error, a call with both indices
\* supplied returned having worked on edges other than the pair a search finds
C13_Witness ==
    /\ Returned
    /\ last.prev # <<>> /\ last.prev[6] = OneEdge
    /\ last.given[1] # 0 - 1 /\ last.given[2] # 0 - 1
    /\ find_overlapping_edges(NoStore, last.pre[last.a], last.pre[last.b]) # last.given
    /\ find_overlapping_edges(NoStore, last.pre[last.a], last.pre[last.b]) # <<>>

-----------------------------------------------------------------------------
\* Claims about one Electrode in its transform hierarchy, stated on the record
\* of the last call

\* the number of transform nodes above node k
RECURSIVE Depth(_)
Depth(k) == IF elec[k].parent = None THEN 0 ELSE 1 + Depth(elec[k].parent)

\* the vertex count of e grew by the number of points handed to the last call
NonePruned == Len(elec["e"].points) = Len(last.pre["e"].points) + Len(last.args[2])

\* C14: after insert_offset_points(index, P) that pruned nothing, under any
\* chain of parent rotations and translations, offset_point(index + k) is P[k]
\* for every k.
C14_InsertOffsetRoundTrip ==
    (last.op = "insert_offset_points" /\ NonePruned) =>
        \A k \in 0..(Len(last.args[2]) - 1) :
            offset_point(elec, elec["e"], last.args[1] + k) = last.args[2][k + 1]

\* two board points inserted, pruning asked for, under a rotated parent that
\* has a rotated parent of its own
C14_Witness ==
    /\ last.op = "insert_offset_points" /\ NonePruned
    /\ last.args[3]
    /\ Len(last.args[2]) = 2
    /\ Depth("e") = 2
    /\ elec["p"].rotation # 0 /\ elec["g"].rotation # 0

\* vertex i of a ring of N vertices, counted from 0 and taken cyclically
Vertex(ring, i) == ring[((i + Len(ring)) % Len(ring)) + 1]

\* P without its first point when dropFirst and without its last when dropLast
Kept(P, dropFirst, dropLast) ==
    SubSeq(P, IF dropFirst THEN 2 ELSE 1, IF dropLast THEN Len(P) - 1 ELSE Len(P))

\* C15: insert_points(index, P, prune_duplicates) leaves the ring as its first
\* index vertices, then P, then its other vertices, where P has lost its first
\* point exactly when pruning is on and that point is within the tolerance of
\* vertex index-1 (cyclically), and its last point exactly when pruning is on
\* and that point is within the tolerance of the vertex at the slot (vertex 0
\* for index = N); nothing else is dropped.
C15_InsertPointsPruning ==
    last.op = "insert_points" =>
        LET ring == last.pre["e"].points
            index == last.args[1]
            P == last.args[2]
            dropFirst == last.args[3] /\ Close(P[1], Vertex(ring, index - 1))
            dropLast == last.args[3] /\ Close(P[Len(P)], Vertex(ring, index))
        IN  elec["e"].points
                = SubSeq(ring, 1, index) \o Kept(P, dropFirst, dropLast)
                  \o SubSeq(ring, index + 1, Len(ring))

\* a call at the end of the ring that pruned both ends of P, after a call that
\* kept a first point one tolerance away from the vertex before the slot
C15_Witness ==
    /\ last.op = "insert_points"
    /\ last.args[1] = Len(last.pre["e"].points)
    /\ Len(last.args[2]) = 3
    /\ Len(elec["e"].points) = Len(last.pre["e"].points) + 1
    /\ \E i \in 1..Len(elec["e"].points) :
          DistSq(elec["e"].points[i], Vertex(elec["e"].points, i)) = PruneTol * PruneTol

\* C16: for a polygon of N vertices and 0 <= i < N, edge(i) is the pair
\* (vertex i, vertex (i+1) mod N) in local coordinates and offset_edge(i) the
\* same pair in board coordinates, the last edge ending at vertex 0; for
\* i >= N both raise the out-of-range error.
C16_EdgeIndexing ==
    last.op = "edge" =>
        LET ring == elec["e"].points
            N == Len(ring)
            i == last.args[1]
            M == transform_matrix(elec, elec["e"])
        IN  IF i >= N THEN last.err = BadEdge
            ELSE /\ last.err = None
                 /\ last.ret[1] = <<ring[i + 1], ring[((i + 1) % N) + 1]>>
                 /\ last.ret[2] = <<MatApply(M, ring[i + 1]), MatApply(M, ring[((i + 1) % N) + 1])>>

\* the closing edge of a ring that has grown, read under a rotated parent
C16_Witness ==
    /\ last.op = "edge" /\ last.err = None
    /\ last.args[1] = Len(elec["e"].points) - 1
    /\ Len(elec["e"].points) > 3
    /\ Depth("e") > 0 /\ elec["p"].rotation # 0
    /\ last.ret[2][2] = offset_point(elec, elec["e"], 0)

\* a read at index N raised
C16_OutOfRangeRead == last.op = "edge" /\ last.args[1] = Len(elec["e"].points) /\ last.err = BadEdge

\* the node's own rotation-then-translation matrix
Local(k) == make_transform_matrix(elec[k].rotation, elec[k].origin)

RECURSIVE LeafFirst(_, _)
\* point v of node k's frame moved by k's own transform, then by its parent's,
\* and so on up to the root
LeafFirst(k, v) ==
    IF elec[k].parent = None THEN MatApply(Local(k), v)
    ELSE LeafFirst(elec[k].parent, MatApply(Local(k), v))

\* C17: transform_matrix() of a node is its local matrix for a root and the
\* parent's transform_matrix() times its local matrix otherwise; applied to a
\* point it gives the point moved by the local transforms leaf first and root
\* last; the call leaves every node as it was.
C17_TransformComposition ==
    last.op = "transform_matrix" =>
        LET k == last.args[1]
            M == last.ret[1]
        IN  /\ M = IF elec[k].parent = None THEN Local(k)
                   ELSE MatDot(transform_matrix(elec, elec[elec[k].parent]), Local(k))
            /\ \A v \in {<<0, 0>>, <<1, 0>>, <<0, 1>>, <<4, 3>>} : MatApply(M, v) = LeafFirst(k, v)
            /\ elec = last.pre

\* the matrix of the electrode read under a rotated parent with a rotated and
\* translated parent of its own, where the order of composition matters
C17_Witness ==
    /\ last.op = "transform_matrix" /\ last.args[1] = "e"
    /\ Depth("e") = 2
    /\ MatDot(Local("g"), MatDot(Local("p"), Local("e")))
           # MatDot(Local("e"), MatDot(Local("p"), Local("g")))
    /\ last.ret[1] = MatDot(Local("g"), MatDot(Local("p"), Local("e")))

-----------------------------------------------------------------------------
\* Claims about fill_ascii

\* the line holds a character that is not white space
HasInk(line) == \E i \in 1..Len(line) : line[i] \notin {" ", "\t"}

\* the cells the diagram marks when its first line with a non-white-space
\* character is row 0 and every line after it is the next row
MarkedCells(lines) ==
    IF \A j \in 1..Len(lines) : ~HasInk(lines[j]) THEN {}
    ELSE LET first == CHOOSE j \in 1..Len(lines) :
                          HasInk(lines[j]) /\ \A h \in 1..(j - 1) : ~HasInk(lines[h])
         IN  UNION {{<<i - 1, j - first>> : i \in {n \in 1..Len(lines[j]) : lines[j][n] \notin {" ", "_"}}}
                    : j \in first..Len(lines)}

\* C18: fill_ascii takes the first line with a non-white-space character as
\* row 0 and each line after it, blank or not, as the next row, and fills cell
\* (i, row) exactly when character i of the row's line is neither a space nor
\* an underscore.
C18_AsciiRowsFromFirstInkedLine ==
    glog.op = "fill_ascii" =>
        DOMAIN grid.electrodes = DOMAIN glog.pre.electrodes \cup MarkedCells(glog.args[1])

-----------------------------------------------------------------------------
\* Claims about the flattening of a board

RECURSIVE CountBefore(_, _)
\* the number of electrodes in the first n containers; sizes[i] is the number in container i
CountBefore(sizes, n) == IF n = 0 THEN 0 ELSE CountBefore(sizes, n - 1) + sizes[n]

GridSizesOf(b) == [g \in 1..Len(b.grids) |-> Len(b.grids[g].order)]

PeriphSizesOf(b) == [p \in 1..Len(b.peripherals) |-> Len(b.peripherals[p].electrodes)]

\* C20: all_electrodes() returns, for each grid in insertion order, its
\* electrodes in the order they were put into the mapping, then for each
\* peripheral in insertion order its electrodes in list order; every electrode
\* of the board is there exactly once; reduce_board_to_electrodes(board)
\* returns the same list; the board is left as it was.
C20_AllElectrodesOrder ==
    glog.op = "all_electrodes" =>
        LET ret == glog.calls[1]
            gs == GridSizesOf(board)
            ps == PeriphSizesOf(board)
            ngrid == CountBefore(gs, Len(gs))
        IN  /\ Len(ret) = ngrid + CountBefore(ps, Len(ps))
            /\ \A g \in 1..Len(gs) : \A j \in 1..gs[g] :
                  ret[CountBefore(gs, g - 1) + j]
                      = board.grids[g].electrodes[board.grids[g].order[j]]
            /\ \A p \in 1..Len(ps) : \A i \in 1..ps[p] :
                  ret[ngrid + CountBefore(ps, p - 1) + i]
                      = board.peripherals[p].electrodes[i].electrode
            /\ \A m \in 1..Len(ret) : \A n \in 1..Len(ret) :
                  m # n => ret[m].refdes # ret[n].refdes
            /\ glog.calls[2] = ret
            /\ board = glog.pre

\* a board of two grids flattened after a two-electrode peripheral was
\* attached and the second grid filled: the grid's electrode comes first
\* although it is the newest
C20_Witness ==
    /\ glog.op = "all_electrodes"
    /\ Len(board.grids) = 2 /\ board.grids[1].order = <<>>
    /\ RefdesOf(glog.calls[1]) = <<3, 1, 2>>
    /\ glog.calls[1][1].parent = "grid" /\ glog.calls[1][2].parent = "peripheral"

\* a board flattened whose second grid was filled before its first
C20_TwoGridsFlattened ==
    /\ glog.op = "all_electrodes"
    /\ RefdesOf(glog.calls[1]) = <<2, 1>>
    /\ board.grids[1].order # <<>> /\ board.grids[2].order # <<>>

-----------------------------------------------------------------------------
\* Claims about BoardDesign.copy

\* C19: the copy holds what the board held when it was taken for as long as
\* only electrodes of the original are crenellated or given points, every
\* vertex ring, refdes and anchor included, and the original holds it for as
\* long as only electrodes of the copy are changed.
C19_CopyIsDeep ==
    board_copy # <<>> =>
        /\ "copy" \notin glog.touched => Content(board_copy[1], lists) = glog.snap
        /\ "board" \notin glog.touched => Content(board, lists) = glog.snap

\* after the copy was taken an electrode of the original was crenellated, and
\* the original no longer holds what the copy holds
C19_Witness ==
    /\ board_copy # <<>>
    /\ glog.op = "crenellate_electrodes" /\ glog.err = None
    /\ glog.touched = {"board"}
    /\ Content(board, lists) # glog.snap

\* the copy was changed and the original was not
C19_CopyChanged ==
    /\ board_copy # <<>>
    /\ glog.touched = {"copy"}
    /\ Content(board_copy[1], lists) # glog.snap

-----------------------------------------------------------------------------
\* Claims about the ids of a Peripheral's electrodes

\* C21: no two entries of the peripheral carry the same id, an add_electrode
\* with an id already present being rejected, so that electrode(id) finds at
\* most one entry and raises IndexError for an absent id.
C21_ElectrodeIdsUnique ==
    /\ \A i \in 1..Len(elec.electrodes) : \A j \in 1..Len(elec.electrodes) :
          i # j => elec.electrodes[i].id # elec.electrodes[j].id
    /\ (last.op = "add_electrode"
        /\ \E i \in 1..Len(last.pre.electrodes) : last.pre.electrodes[i].id = last.args[1])
           => (last.err # None /\ elec = last.pre)
    /\ last.op = "electrode" =>
          (last.err = NoElectrode
              <=> \A i \in 1..Len(elec.electrodes) : elec.electrodes[i].id # last.args[1])

-----------------------------------------------------------------------------
\* Claims about what crenellation and point insertion do to vertex rings

RECURSIVE IsSubsequence(_, _)
\* the points of s appear in t in the same order
IsSubsequence(s, t) ==
    IF s = <<>> THEN TRUE
    ELSE IF t = <<>> THEN FALSE
    ELSE IF Head(s) = Head(t) THEN IsSubsequence(Tail(s), Tail(t))
    ELSE IsSubsequence(s, Tail(t))

\* C22: in every step of a session of crenellate_electrodes, crenellate_grid,
\* insert_points and insert_offset_points calls (and of copying the board),
\* every vertex list keeps its vertices, in order and with the same
\* coordinates, inside the new list, so none drops below 3 vertices; a
\* crenellate_electrodes call changes no list but those of its two electrodes.
C22_VerticesOnlyAdded ==
    [][/\ Len(lists') >= Len(lists)
       /\ \A id \in 1..Len(lists) :
             /\ IsSubsequence(lists[id], lists'[id])
             /\ Len(lists'[id]) >= 3
             /\ (/\ glog'.op = "crenellate_electrodes"
                 /\ id \notin {ElectrodeOf(glog'.args[1], glog'.args[2]).points,
                               ElectrodeOf(glog'.args[1], glog'.args[3]).points})
                   => lists'[id] = lists[id]]_vars

\* crenellate_grid returned on the copy's grid after points were inserted into
\* one of its electrodes
C22_Witness ==
    /\ glog.op = "crenellate_grid" /\ glog.err = None /\ glog.args[1] = "copy"
    /\ \E id \in 1..Len(lists) : Len(lists[id]) >= 8

-----------------------------------------------------------------------------
\* Claims about the geometry of the crenellated edge, stated on the record of
\* the last crenellate_electrodes call: last.new_points is short_edge[0], the
\* points create_crenellated_edge returned, short_edge[1]

\* the unit vector of an axis-parallel edge
UnitOf(e) == <<Sign(e[2][1] - e[1][1]), Sign(e[2][2] - e[1][2])>>

\* the length of an axis-parallel edge
LengthOf(e) == Abs(e[2][1] - e[1][1]) + Abs(e[2][2] - e[1][2])

\* the coordinates of p in the frame of edge e: x along e from its start, y to
\* the left of it
FrameX(e, p) == Dot(VSub(p, e[1]), UnitOf(e))

FrameY(e, p) == Cross(UnitOf(e), VSub(p, e[1]))

\* the points create_crenellated_edge returned to the last call
Fingers == SubSeq(last.new_points, 2, Len(last.new_points) - 1)

\* the last call handed create_crenellated_edge n >= 1 and 0 <= margin < length / 2
ValidFingers ==
    /\ Returned
    /\ last.num_digits >= 1
    /\ last.margin >= 0 /\ 2 * last.margin < LengthOf(last.short_edge)

\* C23: for n >= 1 and 0 <= margin < length / 2 create_crenellated_edge returns
\* n + 2 points; in the frame of the segment their x is margin, then
\* margin + width / 2 + k * width for k = 0..n-1, then length - margin, strictly
\* increasing, and their y is 0 for the first and the last and +height,
\* -height, ... for the fingers, with width = (length - 2 * margin) / n and
\* height = width / tan(theta / 2) / 2.  Equalities are multiplied by 2 * n.
C23_FingerGeometry ==
    ValidFingers =>
        LET e == last.short_edge
            n == last.num_digits
            span == LengthOf(e) - 2 * last.margin
            pts == Fingers
        IN  /\ Len(pts) = n + 2
            /\ FrameX(e, pts[1]) = last.margin /\ FrameY(e, pts[1]) = 0
            /\ FrameX(e, pts[n + 2]) = LengthOf(e) - last.margin /\ FrameY(e, pts[n + 2]) = 0
            /\ \A k \in 0..(n - 1) :
                  /\ 2 * n * FrameX(e, pts[k + 2]) = 2 * n * last.margin + (2 * k + 1) * span
                  /\ 2 * n * FrameY(e, pts[k + 2])
                         = (IF k % 2 = 0 THEN 1 ELSE 0 - 1) * span * last.cot_half
            /\ \A k \in 1..(n + 1) : FrameX(e, pts[k]) < FrameX(e, pts[k + 1])

\* two fingers with a margin on an edge that runs downwards, theta below 90 degrees
C23_Witness ==
    /\ ValidFingers
    /\ last.num_digits = 2 /\ last.margin > 0 /\ last.cot_half = 2
    /\ UnitOf(last.short_edge) = <<0, 0 - 1>>

-----------------------------------------------------------------------------
\* Claims about the order of the inserted points in each electrode

\* the points the last call inserted into electrode k after vertex idx
InsertedPoints(k, idx) == SubSeq(PostRing(k), idx + 2, idx + 1 + Growth(k))

\* the projection of p on the direction of edge e, from its start (times |e|)
Projection(e, p) == Dot(VSub(p, e[1]), VSub(e[2], e[1]))

\* the points of seq come in non-decreasing projection along edge e
OrderedAlong(e, seq) ==
    \A j \in 1..(Len(seq) - 1) : Projection(e, seq[j]) <= Projection(e, seq[j + 1])

\* the inserted points of both electrodes are where and in the order C24 says
InsertedInOrder ==
    /\ InsertedAfter(last.a, last.edge_a_idx)
    /\ InsertedAfter(last.b, last.edge_b_idx)
    /\ OrderedAlong(last.edge_a, InsertedPoints(last.a, last.edge_a_idx))
    /\ OrderedAlong(last.edge_b, InsertedPoints(last.b, last.edge_b_idx))

\* C24: after crenellate_electrodes the inserted points of each electrode sit
\* between the vertex at its chosen edge index and the next vertex of its ring
\* (the first vertex when the chosen edge is the closing edge), in
\* non-decreasing projection along the electrode's own edge direction, whether
\* or not that edge runs opposite to the reference edge.
C24_InsertedInOwnEdgeOrder == ValidPair => InsertedInOrder

\* the same for the calls whose num_digits and margin C12 does not want rejected
C24_OrderedForValidParameters == (ValidPair /\ ValidFingers) => InsertedInOrder

\* opposite edges, the reference edge being a's and b's chosen edge its closing edge
C24_OppositeClosingEdge ==
    /\ ValidPair /\ ValidFingers
    /\ Opposite
    /\ last.short_edge = last.edge_a
    /\ last.edge_b_idx = Len(PreRing(last.b)) - 1
    /\ last.num_digits = 2

\* edges that run the same way: the points go into both rings unreversed
C24_SameDirection ==
    /\ ValidPair /\ ValidFingers
    /\ ~Opposite
    /\ last.short_edge = last.edge_b
    /\ last.num_digits = 2

-----------------------------------------------------------------------------
\* Claims about the no-shared-edge error, stated on the calls of the last
\* crenellate_grid: each entry of glog.calls holds the two board rings
\* crenellate_electrodes was handed and the error it raised

\* no edge of ring_a and edge of ring_b of call c are colinear with one inside the other
NoSharedEdge(c) ==
    \A ij \in EdgePairs(c) : ~Containment(RingEdge(c.ring_a, ij[1]), RingEdge(c.ring_b, ij[2]))

\* the board ring of the electrode of cell pos of grid g
CellRing(g, pos) == offset_points(GridStore(g), g.electrodes[pos])

\* C25: a crenellate_electrodes call without explicit indices on two electrodes
\* none of whose edges overlap raises the no-shared-edge error and leaves both
\* vertex rings unchanged; crenellate_grid raises that error itself and makes
\* no crenellate_electrodes call after it.
C25_NoSharedEdgeStopsGrid ==
    glog.op = "crenellate_grid" =>
        /\ \A i \in 1..Len(glog.calls) :
              LET c == glog.calls[i]
              IN  /\ NoSharedEdge(c) => c.err = NoEdges
                  /\ c.err = NoEdges =>
                        /\ i = Len(glog.calls)
                        /\ glog.err = NoEdges
                        /\ CellRing(grid, c.a) = c.ring_a
                        /\ CellRing(grid, c.b) = c.ring_b
        /\ glog.err = NoEdges => Len(glog.calls) >= 1 /\ glog.calls[Len(glog.calls)].err = NoEdges

\* the third pair of a full 2 x 2 grid shares no edge: two crenellations are
\* made, the third call raises and the fourth pair is never visited
C25_Witness ==
    /\ glog.op = "crenellate_grid" /\ glog.err = NoEdges
    /\ DOMAIN glog.pre.electrodes = (0..1) \X (0..1)
    /\ Len(glog.calls) = 3
    /\ glog.calls[1].err = None /\ glog.calls[2].err = None
    /\ NoSharedEdge(glog.calls[3])
    /\ CellRing(grid, <<0, 0>>) # CellRing(glog.pre, <<0, 0>>)
    /\ CellRing(grid, <<1, 1>>) = CellRing(glog.pre, <<1, 1>>)

-----------------------------------------------------------------------------
\* Claims about Constructor.fill, stated on the steps of a session

\* ring is a square of side p with a corner at its local origin
SquareOfSide(ring, p) ==
    /\ Len(ring) = 4
    /\ {ring[i] : i \in 1..4} = {<<0, 0>>, <<0, p>>, <<p, p>>, <<p, 0>>}
    /\ \A i \in 0..3 : EdgeLengthSq(RingEdge(ring, i)) = p * p

\* the cells fill_rect(pos, size) visits
RectCells(pos, size) ==
    {<<x, y>> : x \in pos[1]..(pos[1] + size[1] - 1), y \in pos[2]..(pos[2] + size[2] - 1)}

\* the step is a call of the Constructor operation op
StepOf(op) == nops' = nops + 1 /\ glog'.op = op

\* C26: Constructor.fill on an empty cell creates a square of side pitch with
\* local origin (col * pitch, row * pitch), anchor at its centre, parent the
\* grid and the next refdes, and touches no other cell; fill on an occupied
\* cell changes neither the grid (the electrode keeps the crenellation it has)
\* nor the refdes counter, so a fill_rect over cells that are all occupied
\* leaves grid and counter as they were.
C26_FillCreatesOrKeeps ==
    [][/\ StepOf("fill") =>
            LET pos == glog'.args[1]
                p == grid.pitch
            IN  IF pos \in DOMAIN grid.electrodes
                THEN grid' = grid /\ next_refdes' = next_refdes
                ELSE /\ DOMAIN grid'.electrodes = DOMAIN grid.electrodes \cup {pos}
                     /\ \A k \in DOMAIN grid.electrodes : grid'.electrodes[k] = grid.electrodes[k]
                     /\ SquareOfSide(grid'.electrodes[pos].points, p)
                     /\ grid'.electrodes[pos].origin = <<pos[1] * p, pos[2] * p>>
                     /\ 2 * grid'.electrodes[pos].anchor_pad[1] = p
                     /\ 2 * grid'.electrodes[pos].anchor_pad[2] = p
                     /\ grid'.electrodes[pos].parent = "grid"
                     /\ grid'.electrodes[pos].refdes = next_refdes
                     /\ next_refdes' = next_refdes + 1
                     /\ grid'.origin = grid.origin /\ grid'.size = grid.size /\ grid'.pitch = p
       /\ (StepOf("fill_rect") /\ RectCells(glog'.args[1], glog'.args[2]) \subseteq DOMAIN grid.electrodes)
              => grid' = grid /\ next_refdes' = next_refdes
      ]_vars

\* fill has been called on a cell whose electrode was crenellated before
C26_Witness ==
    /\ glog.op = "fill"
    /\ glog.args[1] \in DOMAIN glog.pre.electrodes
    /\ Len(glog.pre.electrodes[glog.args[1]].points) > 4
    /\ grid = glog.pre

\* fill has created the electrode of a cell next to an occupied one
C26_FilledEmptyCell ==
    /\ glog.op = "fill"
    /\ glog.args[1] \notin DOMAIN glog.pre.electrodes
    /\ glog.pre.electrodes # <<>>
    /\ glog.args[1] \in DOMAIN grid.electrodes

\* fill_rect has been called a second time over the same cells
C26_FilledTwice ==
    /\ glog.op = "fill_rect"
    /\ DOMAIN glog.pre.electrodes = RectCells(glog.args[1], glog.args[2])
    /\ grid = glog.pre
    /\ next_refdes = 5

-----------------------------------------------------------------------------
\* Claims about the parents of a copy's electrodes

\* the board rings of the electrodes of board b on heap h, each taken through
\* the containers of board through
RingsThrough(b, h, through) ==
    LET es == all_electrodes(b)
    IN  [k \in 1..Len(es) |-> offset_points(BoardStore(through), Deref(h, es[k]))]

\* the board rings a snapshot holds
SnapRings(snap) == [k \in 1..Len(snap) |-> snap[k].board_ring]

\* C27: every electrode of the board BoardDesign.copy() returned has the copied
\* Grid or Peripheral that holds it as its parent: its board-coordinate polygon
\* is the one taken through the copy's own containers, it stays what it was for
\* as long as no electrode of the copy is changed, whatever happens to the
\* original's containers, and at the moment of copying it equals the polygon
\* of its original.
C27_CopyParentsAreCopies ==
    board_copy # <<>> =>
        /\ RingsThrough(board_copy[1], lists, board)
               = RingsThrough(board_copy[1], lists, board_copy[1])
        /\ "copy" \notin glog.touched
               => RingsThrough(board_copy[1], lists, board) = SnapRings(glog.snap)
        /\ glog.op = "copy"
               => RingsThrough(board_copy[1], lists, board) = RingsThrough(board, lists, board)

\* at the moment of copying the polygons of the copy are those of the original
C27_SameAtCopy ==
    (board_copy # <<>> /\ glog.op = "copy")
        => /\ RingsThrough(board_copy[1], lists, board) = RingsThrough(board, lists, board)
           /\ RingsThrough(board_copy[1], lists, board) = SnapRings(glog.snap)

\* the grid of the original was moved after the copy was taken
C27_GridMovedAfterCopy ==
    /\ board_copy # <<>>
    /\ glog.op = "grid.origin"
    /\ board.grids[1].origin # board_copy[1].grids[1].origin
    /\ glog.touched = {}

====
